---------------------------- MODULE Spec2Model ----------------------------
(***************************************************************************)
(* A model of chorister.js (src/chorister.js): the position indexer, the   *)
(* parts resolver, the expansion engine and the MIDI aligner of ChScore.   *)
(*                                                                         *)
(* Units.  Score time ("Q", quarter notes) is counted in ticks of one      *)
(* eighth note (TicksPerQ ticks to the quarter).  Real time (seconds in    *)
(* the source) is counted in milliseconds.  A JavaScript null in a numeric *)
(* field is the value Null; arithmetic on it coerces it to 0 as            *)
(* JavaScript does (Num).                                                  *)
(***************************************************************************)
EXTENDS Integers, Sequences, FiniteSets, TLC

VARIABLES
  pc,         \* position of the running handler
  doc,        \* the document Verovio holds: elements, ties, measures, timemap
  inputData,  \* load()'s inputData: sections, fermatas, MIDI, parts template
  scoreData,  \* this._scoreData
  loopVars,   \* locals of the indexing loop of _parseAndAnnotateMei
  midiLog,    \* what _loadMidi did: classifications, regenerations, console output
  currentOptions  \* this._currentOptions

vars == <<pc, doc, inputData, scoreData, loopVars, midiLog, currentOptions>>

------------------------------------------------------------------------------
(* Bounds of the model *)

MaxEntries == 3

------------------------------------------------------------------------------
(* JavaScript values *)

Null == -1

TicksPerQ == 2

Num(x) == IF x = Null THEN 0 ELSE x

Min(a, b) == IF a < b THEN a ELSE b

Includes(s, x) == \E i \in 1..Len(s) : s[i] = x

\* _defaultOptions (lines 3959-3972), without the options of drawing;
\* false and null are "false" and "null"
defaultOptions ==
  [ zoomPercent |-> 40,
    keySignatureId |-> "null",
    expandScore |-> "false",
    showMeasureNumbers |-> FALSE,
    showMelodyOnly |-> FALSE,
    hiddenSectionIds |-> <<>> ]

RECURSIVE Reverse(_)
Reverse(s) == IF s = <<>> THEN <<>> ELSE Append(Reverse(Tail(s)), Head(s))

RECURSIVE SumSeq(_)
SumSeq(s) == IF s = <<>> THEN 0 ELSE Head(s) + SumSeq(Tail(s))

Range(s) == {s[i] : i \in 1..Len(s)}

------------------------------------------------------------------------------
(* Gathering notes, rests and measures from the document *)

\* tiedNotes: startid -> endid of every <tie> with both ends
TiedNoteId(d, elementId) ==
  IF \E t \in d.ties : t[1] = elementId
  THEN (CHOOSE t \in d.ties : t[1] = elementId)[2]
  ELSE Null

IsTiedNote(d, elementId) == \E t \in d.ties : t[2] = elementId

\* this._scoreData.notesAndRestsById
GatherNotesAndRests(d) ==
  [id \in DOMAIN d.elements |->
    LET el == d.elements[id]
        isRest == el.tag = "rest"
        \* the cue attribute is removed before it is read, so isCue is false
        isCue == FALSE
        isTied == IsTiedNote(d, id)
    IN [ elementId |-> id,
         pitch |-> el.pitch,
         staffNumber |-> el.staff,
         layerNumber |-> el.layer,
         chordId |-> el.chord,
         lyricSyllables |-> el.syl,
         tiedNoteId |-> TiedNoteId(d, id),
         isTiedNote |-> isTied,
         isRest |-> isRest,
         isCue |-> isCue,
         isAudible |-> ~(isRest \/ isCue \/ isTied),
         partIds |-> <<>>,
         expandedChordPositions |-> <<>>,
         isMelody |-> "null",
         startQ |-> Null,
         endQ |-> Null,
         durationQ |-> Null,
         chordPosition |-> Null ] ]

\* this._scoreData.measures (measureId = index of the measure)
GatherMeasures(d) ==
  [m \in 1..Len(d.measures) |->
    [ measureId |-> m,
      measureType |-> "null",
      timeSignature |-> <<d.measures[m].count, d.measures[m].unit>>,
      isFirstMeasure |-> (m = 1),
      isLastMeasure |-> (m = Len(d.measures)),
      rightBarLine |-> d.measures[m].right,
      startQ |-> Null,
      endQ |-> Null,
      durationQ |-> Null,
      firstChordPosition |-> Null ] ]

\* full, partial-pickup, partial-pickdown, partial-start, partial-end
getMeasureType(measureInfo) ==
  LET completeDurationQ ==
        (measureInfo.timeSignature[1] * 4 * TicksPerQ) \div measureInfo.timeSignature[2]
  IN IF measureInfo.durationQ # completeDurationQ
     THEN IF measureInfo.isFirstMeasure THEN "partial-pickup"
          ELSE IF measureInfo.isLastMeasure THEN "partial-pickdown"
          ELSE IF measureInfo.rightBarLine = "invis" THEN "partial-start"
          ELSE "partial-end"
     ELSE "full"

IsDownbeatType(measureType) == measureType \notin {"partial-end", "partial-pickup"}

------------------------------------------------------------------------------
(* Parts: the default parts and the per-staff part lookup *)

\* _normalizeParts, third branch: melody on staff 1 plus full-score accompaniment
DefaultParts(staffNumbers) ==
  << [ partId |-> "melody", name |-> "Melody", isVocal |-> TRUE, placement |-> "auto",
       chordPositionRefs |->
         << [chordPosition |-> 0, isMelody |-> TRUE, staffNumbers |-> <<1>>] >> ],
     [ partId |-> "accompaniment", name |-> "Accompaniment", isVocal |-> FALSE,
       placement |-> "full",
       chordPositionRefs |->
         << [chordPosition |-> 0, isMelody |-> FALSE, staffNumbers |-> staffNumbers] >> ] >>

\* the last chordPositionRefs entry at or before chordPosition (0 = none);
\* chordPositionRefs is kept in ascending key order, as integer keys of an object are
RefIndexAt(part, chordPosition) ==
  LET refs == part.chordPositionRefs
      ok == {i \in 1..Len(refs) : refs[i].chordPosition <= chordPosition}
  IN IF ok = {} THEN 0 ELSE CHOOSE i \in ok : \A j \in ok : j <= i

PlacementSlot(placement) ==
  CASE placement = "1" -> 1 [] placement = "2" -> 2
    [] placement = "3" -> 3 [] placement = "4" -> 4 [] OTHER -> 0

\* the loop "for (const part of parts)" of getStaffPartIds, from part i on;
\* it throws when a fifth auto-placed part is pushed on partIdsDict[5]
RECURSIVE StaffPartsFrom(_, _, _, _, _)
StaffPartsFrom(staffNumber, chordPosition, parts, i, acc) ==
  IF i > Len(parts) \/ acc.threw THEN acc
  ELSE
    LET part == parts[i]
        r == RefIndexAt(part, chordPosition)
        applies == r # 0 /\ Includes(part.chordPositionRefs[r].staffNumbers, staffNumber)
        slot == PlacementSlot(part.placement)
        isFull == part.placement = "full"
                  \/ (part.placement = "auto"
                      /\ part.partId \in {"instrumental", "accompaniment"})
        isAuto == part.placement = "auto" /\ ~isFull
        target == IF slot # 0 THEN slot ELSE IF isAuto THEN acc.counter ELSE 0
        mel == IF part.chordPositionRefs[r].isMelody
               THEN Append(acc.melody, part.partId) ELSE acc.melody
    IN IF ~applies THEN StaffPartsFrom(staffNumber, chordPosition, parts, i + 1, acc)
       ELSE IF target > 4 THEN [acc EXCEPT !.threw = TRUE]
       ELSE StaffPartsFrom(staffNumber, chordPosition, parts, i + 1,
               [ dict |-> IF target # 0
                          THEN [acc.dict EXCEPT ![target] = Append(@, part.partId)]
                          ELSE acc.dict,
                 full |-> IF isFull THEN Append(acc.full, part.partId) ELSE acc.full,
                 melody |-> mel,
                 counter |-> IF isAuto THEN acc.counter + 1 ELSE acc.counter,
                 threw |-> FALSE ])

\* "Remove empty lists at the end" of partIds, keeping at least one list
TrimPartIds(filled) ==
  LET keep == IF \E k \in 1..4 : filled[k] # <<>>
              THEN CHOOSE k \in 1..4 : filled[k] # <<>> /\ \A j \in (k+1)..4 : filled[j] = <<>>
              ELSE 1
  IN SubSeq(filled, 1, keep)

\* the return value of getStaffPartIds from what its loop collected
StaffPartIdsOf(res) ==
  [ partIds |-> TrimPartIds([k \in 1..4 |-> res.dict[k] \o res.full]),
    melodyPartIds |-> res.melody,
    threw |-> res.threw ]

\* getStaffPartIds: [partIds, melodyPartIds, threw]
getStaffPartIds(staffNumber, chordPosition, parts) ==
  StaffPartIdsOf(StaffPartsFrom(staffNumber, chordPosition, parts, 1,
                    [ dict |-> << <<>>, <<>>, <<>>, <<>> >>, full |-> <<>>,
                      melody |-> <<>>, counter |-> 1, threw |-> FALSE ]))

------------------------------------------------------------------------------
(* The indexing loop of _parseAndAnnotateMei: one timemap entry at a time *)

\* notesAndRests.sort: by pitch, then by duration including a tied note's
\* (a stable sort, written as an insertion sort on element ids)
SortKey2(notes, id) ==
  Num(notes[id].durationQ)
    + (IF notes[id].tiedNoteId # Null THEN Num(notes[notes[id].tiedNoteId].durationQ) ELSE 0)

NoteBefore(notes, a, b) ==
  \/ notes[a].pitch < notes[b].pitch
  \/ (notes[a].pitch = notes[b].pitch /\ SortKey2(notes, a) < SortKey2(notes, b))

\* insert id after every element that does not sort after it (stability)
RECURSIVE InsertNote(_, _, _)
InsertNote(notes, sorted, id) ==
  IF sorted = <<>> THEN <<id>>
  ELSE IF NoteBefore(notes, id, Head(sorted)) THEN <<id>> \o sorted
  ELSE <<Head(sorted)>> \o InsertNote(notes, Tail(sorted), id)

RECURSIVE SortNotes(_, _)
SortNotes(notes, ids) ==
  IF ids = <<>> THEN <<>>
  ELSE InsertNote(notes, SortNotes(notes, SubSeq(ids, 1, Len(ids) - 1)), ids[Len(ids)])

\* "Calculate staff part index": odd layers count down from the top of the
\* chord, even layers count up from the bottom
StaffPartIndex(d, note, positionInChord) ==
  IF note.layerNumber % 2 # 0 THEN Num(positionInChord)
  ELSE IF note.chordId # 0
       THEN positionInChord
            - Cardinality({e \in DOMAIN d.elements :
                             d.elements[e].chord = note.chordId /\ d.elements[e].tag = "note"})
       ELSE -1

\* Array.prototype.at on the list of part-id lists, [] when out of reach
PartIdsAt(staffPartIds, staffPartIndex) ==
  LET abs == IF staffPartIndex < 0 THEN -staffPartIndex ELSE staffPartIndex
  IN IF Len(staffPartIds) > abs
     THEN IF staffPartIndex >= 0 THEN staffPartIds[staffPartIndex + 1]
          ELSE staffPartIds[Len(staffPartIds) + staffPartIndex + 1]
     ELSE <<>>

\* the body of "Assign notes to parts" for one note, given the staff's part
\* ids; foundMelodyNote is declared inside the loop body, so it is false
\* whenever it is read
AssignNote(d, acc, id, positionInChord, sp) ==
  LET partIds == PartIdsAt(sp.partIds, StaffPartIndex(d, acc.notes[id], positionInChord))
      foundMelodyNote == FALSE
      isMel == /\ sp.melodyPartIds # <<>>
               /\ \E q \in DOMAIN partIds : Includes(sp.melodyPartIds, partIds[q])
               /\ ~foundMelodyNote
  IN IF sp.threw THEN [acc EXCEPT !.threw = TRUE]
     ELSE [ notes |-> [acc.notes EXCEPT ![id].partIds = partIds,
                                        ![id].isMelody = IF isMel THEN "true" ELSE "false"],
            melodyNote |-> IF isMel THEN id ELSE acc.melodyNote,
            threw |-> FALSE ]

\* "Assign notes to parts", from the k-th note of the reversed list on
RECURSIVE AssignPartsFrom(_, _, _, _, _, _)
AssignPartsFrom(d, rev, chordPosition, parts, k, acc) ==
  IF k > Len(rev) \/ acc.threw THEN acc
  ELSE AssignPartsFrom(d, rev, chordPosition, parts, k + 1,
         AssignNote(d, acc, rev[k],
                    IF acc.notes[rev[k]].chordId # 0
                    THEN Cardinality({j \in 1..(k - 1) :
                                        acc.notes[rev[j]].chordId = acc.notes[rev[k]].chordId})
                    ELSE Null,
                    getStaffPartIds(acc.notes[rev[k]].staffNumber, chordPosition, parts)))

AssignParts(d, notes, sortedIds, chordPosition, parts) ==
  AssignPartsFrom(d, Reverse(sortedIds), chordPosition, parts, 1,
                  [notes |-> notes, melodyNote |-> Null, threw |-> FALSE])

\* chordPositionInfo as pushed on this._scoreData.chordPositions
NewChordPositionInfo(chordPosition, qstamp, measureId, notesAndRests, melodyNote, isAudible) ==
  [ chordPosition |-> chordPosition,
    startQ |-> qstamp,
    endQ |-> Null,
    durationQ |-> Null,
    measureId |-> measureId,
    notesAndRests |-> notesAndRests,
    melodyNote |-> melodyNote,
    isAudible |-> isAudible,
    isDownbeat |-> FALSE,
    midiQpm |-> Null,
    midiNotesByPitch |-> <<>>,
    midiStartTime |-> Null,
    midiEndTime |-> Null,
    midiDuration |-> Null,
    expandedChordPositions |-> <<>>,
    isSingleLine |-> "null" ]

\* closing a measure: endQ, durationQ and measureType (lines 919-923, 1037-1039)
CloseMeasure(measureInfo, qstamp) ==
  [measureInfo EXCEPT !.endQ = qstamp,
                      !.durationQ = qstamp - Num(measureInfo.startQ),
                      !.measureType =
                         getMeasureType([measureInfo EXCEPT
                                           !.durationQ = qstamp - Num(measureInfo.startQ)])]

\* the measures after the measureOn part of the loop body (lines 916-923)
MeasuresOn(sd, lv, entry) ==
  [m \in DOMAIN sd.measures |->
     IF m = entry.measureOn
     THEN [sd.measures[m] EXCEPT
             !.startQ = entry.qstamp,
             !.firstChordPosition = IF entry.on # <<>> THEN lv.chordPositionCounter ELSE @]
     ELSE IF m = lv.previousMeasure
          THEN CloseMeasure(sd.measures[m], entry.qstamp)
          ELSE sd.measures[m]]

\* lines 924-929 on the measures so updated; chordPositions[null] is
\* undefined, so setting isDownbeat for an empty previous measure throws
DownbeatOn(sd, lv, measures) ==
  LET pm == lv.previousMeasure
  IN IF pm = Null
     THEN [chordPositions |-> sd.chordPositions, threw |-> FALSE]
     ELSE IF measures[pm].firstChordPosition = Null
     THEN [chordPositions |-> sd.chordPositions, threw |-> TRUE]
     ELSE [chordPositions |->
             [sd.chordPositions EXCEPT
                ![measures[pm].firstChordPosition + 1].isDownbeat =
                   IsDownbeatType(measures[pm].measureType)],
           threw |-> FALSE]

\* the measureOn part of the loop body (lines 916-929):
\* [measures, chordPositions, previousMeasure, threw]
EntryMeasureOnWith(sd, lv, entry, measures, db) ==
  [ measures |-> measures, chordPositions |-> db.chordPositions,
    previousMeasure |-> entry.measureOn, threw |-> db.threw ]

EntryMeasureOn(sd, lv, entry) ==
  IF entry.measureOn = Null
  THEN [measures |-> sd.measures, chordPositions |-> sd.chordPositions,
        previousMeasure |-> lv.previousMeasure, threw |-> FALSE]
  ELSE EntryMeasureOnWith(sd, lv, entry, MeasuresOn(sd, lv, entry),
                          DownbeatOn(sd, lv, MeasuresOn(sd, lv, entry)))

\* lines 934-945: the elements starting at the entry get chordPosition and startQ
MarkOnsets(sd, lv, entry) ==
  [id \in DOMAIN sd.notesAndRestsById |->
     IF Includes(entry.on, id)
     THEN [sd.notesAndRestsById[id] EXCEPT !.chordPosition = lv.chordPositionCounter,
                                           !.startQ = entry.qstamp]
     ELSE sd.notesAndRestsById[id]]

\* lines 1029-1034: the elements ending at the entry get endQ and durationQ
MarkOffsets(notes, entry) ==
  [id \in DOMAIN notes |->
     IF Includes(entry.off, id)
     THEN [notes[id] EXCEPT !.endQ = entry.qstamp,
                            !.durationQ = entry.qstamp - Num(notes[id].startQ)]
     ELSE notes[id]]

\* lines 1003-1026: the previous chord position is closed, the new one pushed
PushChordPosition(lv, entry, s1, sorted, asg, isAudible) ==
  Append(IF lv.previousChordPosition = Null THEN s1.chordPositions
         ELSE [s1.chordPositions EXCEPT
                 ![lv.previousChordPosition + 1].endQ = entry.qstamp,
                 ![lv.previousChordPosition + 1].durationQ =
                    entry.qstamp - s1.chordPositions[lv.previousChordPosition + 1].startQ],
         NewChordPositionInfo(lv.chordPositionCounter, entry.qstamp, s1.previousMeasure,
                              sorted, asg.melodyNote, isAudible))

\* a counter that also advances on entries where nothing starts
CounterAlwaysAdvances(lv, entry) == lv.chordPositionCounter + 1

\* chordPositionCounter++ at the end of "if (entry.on)" (line 1027)
NextCounter(lv, entry) ==
  IF entry.on # <<>> THEN lv.chordPositionCounter + 1 ELSE lv.chordPositionCounter

\* the entry.on part of the loop body once the notes are sorted and assigned;
\* with no measure started, previousSectionElement is undefined and
\* reading its id throws
IndexEntryWith(sd, lv, entry, s1, sorted, asg) ==
  LET hasOn == entry.on # <<>>
      counter == lv.chordPositionCounter
      isAudible == \E k \in DOMAIN sorted : sd.notesAndRestsById[sorted[k]].isAudible
  IN IF s1.threw \/ (hasOn /\ (s1.previousMeasure = Null \/ asg.threw))
     THEN [ sd |-> [sd EXCEPT !.measures = s1.measures], lv |-> lv, threw |-> TRUE ]
     ELSE [ sd |-> [sd EXCEPT
                      !.measures = s1.measures,
                      !.chordPositions =
                         IF hasOn THEN PushChordPosition(lv, entry, s1, sorted, asg, isAudible)
                         ELSE s1.chordPositions,
                      !.notesAndRestsById =
                         MarkOffsets(IF hasOn THEN asg.notes ELSE @, entry),
                      !.audibleChordPositions =
                         IF hasOn /\ isAudible THEN Append(@, counter) ELSE @],
            lv |-> [ i |-> lv.i + 1,
                     chordPositionCounter |-> NextCounter(lv, entry),
                     previousMeasure |-> s1.previousMeasure,
                     previousChordPosition |->
                        IF hasOn THEN counter ELSE lv.previousChordPosition ],
            threw |-> FALSE ]

IndexEntrySorted(d, sd, lv, entry, notes1, sorted) ==
  IndexEntryWith(sd, lv, entry, EntryMeasureOn(sd, lv, entry), sorted,
                 AssignParts(d, notes1, sorted, lv.chordPositionCounter, sd.parts))

IndexEntryMarked(d, sd, lv, entry, notes1) ==
  IndexEntrySorted(d, sd, lv, entry, notes1, SortNotes(notes1, entry.on))

\* one iteration of "for (const entry of vrvTimemap)" (lines 913-1035)
IndexEntry(d, sd, lv, entry) ==
  IndexEntryMarked(d, sd, lv, entry, MarkOnsets(sd, lv, entry))

\* after the loop (lines 1036-1043): close the last measure and chord position;
\* previousChordPositionInfo is undefined when no chord position was created
IndexFinishWith(sd, lv, lastQ, ms) ==
  LET pm == lv.previousMeasure
      pcp == lv.previousChordPosition
      fcp == ms[pm].firstChordPosition
  IN IF pcp = Null THEN [sd |-> [sd EXCEPT !.measures = ms], threw |-> TRUE]
     ELSE [ sd |-> [sd EXCEPT
                      !.measures = ms,
                      !.chordPositions =
                         [i \in DOMAIN sd.chordPositions |->
                            [sd.chordPositions[i] EXCEPT
                               !.isDownbeat = IF fcp # Null /\ i = fcp + 1
                                              THEN IsDownbeatType(ms[pm].measureType) ELSE @,
                               !.endQ = IF i = pcp + 1 THEN lastQ ELSE @,
                               !.durationQ = IF i = pcp + 1
                                             THEN lastQ - sd.chordPositions[i].startQ ELSE @]]],
            threw |-> FALSE ]

IndexFinish(d, sd, lv) ==
  IF lv.previousMeasure = Null THEN [sd |-> sd, threw |-> TRUE]
  ELSE IndexFinishWith(sd, lv, d.timemap[Len(d.timemap)].qstamp,
                       [sd.measures EXCEPT ![lv.previousMeasure] =
                          CloseMeasure(@, d.timemap[Len(d.timemap)].qstamp)])

InitLoopVars ==
  [i |-> 1, chordPositionCounter |-> 0, previousMeasure |-> Null, previousChordPosition |-> Null]

\* the whole loop, as _parseAndAnnotateMei runs it
RECURSIVE IndexFrom(_, _, _)
IndexResume(d, r) == IF r.threw THEN r ELSE IndexFrom(d, r.sd, r.lv)

IndexFinished(lv, f) == [sd |-> f.sd, lv |-> lv, threw |-> f.threw]

IndexFrom(d, sd, lv) ==
  IF lv.i > Len(d.timemap)
  THEN IndexFinished(lv, IndexFinish(d, sd, lv))
  ELSE IndexResume(d, IndexEntry(d, sd, lv, d.timemap[lv.i]))

------------------------------------------------------------------------------
(* Documents.  A document is what Verovio holds after loadData: the note   *)
(* and rest elements, the ties, the measures and the timemap               *)
(* (renderToTimemap with includeRests and includeMeasures), whose entries  *)
(* come in strictly increasing time order, the first one starting a        *)
(* measure and the last one only ending elements.                          *)

NoteElement(pitch, staff, layer) ==
  [tag |-> "note", pitch |-> pitch, staff |-> staff, layer |-> layer, chord |-> 0, syl |-> <<>>]

\* getMIDIValuesForElement gives a rest no pitch; 0 stands for it
RestElement(staff, layer) ==
  [tag |-> "rest", pitch |-> 0, staff |-> staff, layer |-> layer, chord |-> 0, syl |-> <<>>]

\* timemap shapes for the indexer: per entry what starts there (nothing, a
\* note, a rest, or a note on each of two staves), whether a measure starts
\* there, and the time to the next entry
IndexOnKinds == {"none", "note", "rest", "two"}

IndexEntrySpecs == [on : IndexOnKinds, measureOn : BOOLEAN, gap : 1..2]

IndexShapes ==
  UNION { { sh \in [1..n -> IndexEntrySpecs] : sh[1].measureOn }
          : n \in 1..MaxEntries }

ShapeOnIds(sh, i) ==
  CASE sh[i].on = "none" -> <<>>
    [] sh[i].on = "two" -> <<2 * i - 1, 2 * i>>
    [] OTHER -> <<2 * i - 1>>

ShapeQstamp(sh, i) == SumSeq([k \in 1..(i - 1) |-> sh[k].gap])

ShapeMeasure(sh, i) == Cardinality({k \in 1..i : sh[k].measureOn})

BuildIndexDoc(sh) ==
  LET n == Len(sh)
      ids == UNION {Range(ShapeOnIds(sh, i)) : i \in 1..n}
      entryOf(id) == (id + 1) \div 2
  IN [ staffNumbers |-> <<1, 2>>,
       elements |-> [id \in ids |->
                       LET i == entryOf(id)
                       IN IF sh[i].on = "rest" THEN RestElement(1, 1)
                          ELSE IF sh[i].on = "two"
                               THEN (IF id % 2 = 1 THEN NoteElement(72, 1, 1)
                                                   ELSE NoteElement(48, 2, 1))
                               ELSE NoteElement(60, 1, 1)],
       ties |-> {},
       measures |-> [m \in 1..ShapeMeasure(sh, n) |-> [count |-> 4, unit |-> 4, right |-> "single"]],
       timemap |-> [i \in 1..(n + 1) |->
                      [ qstamp |-> ShapeQstamp(sh, i),
                        on |-> IF i <= n THEN ShapeOnIds(sh, i) ELSE <<>>,
                        off |-> IF i > 1 THEN ShapeOnIds(sh, i - 1) ELSE <<>>,
                        measureOn |-> IF i <= n /\ sh[i].measureOn
                                      THEN ShapeMeasure(sh, i) ELSE Null ]] ]

IndexDocs == {BuildIndexDoc(sh) : sh \in IndexShapes}

------------------------------------------------------------------------------
(* Scores for the whole pipeline: a score is a sequence of measures taken  *)
(* from a few patterns, one voice on staff 1 ("both": also a note on staff *)
(* 2), every element starting where the previous one ends.  Durations are  *)
(* in ticks.                                                               *)

Event(kind, dur) == [kind |-> kind, dur |-> dur]

MeasurePattern(name) ==
  CASE name = "p68" -> [count |-> 6, unit |-> 8, events |-> <<Event("note", 1)>>]
    [] name = "f68" -> [count |-> 6, unit |-> 8, events |-> <<Event("note", 3), Event("both", 3)>>]
    [] name = "r68" -> [count |-> 6, unit |-> 8, events |-> <<Event("rest", 3), Event("note", 3)>>]
    [] name = "e68" -> [count |-> 6, unit |-> 8, events |-> <<Event("note", 3), Event("note", 2)>>]
    [] name = "f44" -> [count |-> 4, unit |-> 4, events |-> <<Event("both", 4), Event("note", 4)>>]
    [] name = "t44" -> [count |-> 4, unit |-> 4, events |-> <<Event("note", 4), Event("tied", 4)>>]
    [] name = "n44" -> [count |-> 4, unit |-> 4, events |-> <<Event("note", 4), Event("rest", 4)>>]
    [] OTHER        -> [count |-> 4, unit |-> 4, events |-> <<Event("rest", 8)>>]

\* the events of measures m.. of the score, each with its measure number
RECURSIVE FlatEvents(_, _)
FlatEvents(score, m) ==
  IF m > Len(score) THEN <<>>
  ELSE [k \in DOMAIN MeasurePattern(score[m]).events |->
          [ kind |-> MeasurePattern(score[m]).events[k].kind,
            dur |-> MeasurePattern(score[m]).events[k].dur,
            measure |-> m,
            first |-> (k = 1) ]]
       \o FlatEvents(score, m + 1)

\* element ids: event k is element 2k-1, its staff-2 note element 2k
EventIds(ev, k) ==
  IF k < 1 \/ k > Len(ev) THEN <<>>
  ELSE IF ev[k].kind = "both" THEN <<2 * k - 1, 2 * k>> ELSE <<2 * k - 1>>

EventElement(ev, id) ==
  IF ev[(id + 1) \div 2].kind = "rest" THEN RestElement(1, 1)
  ELSE IF id % 2 = 0 THEN NoteElement(48, 2, 1)
  ELSE NoteElement(60, 1, 1)

DocOfEvents(score, ev) ==
  [ staffNumbers |-> <<1, 2>>,
    elements |-> [id \in UNION {Range(EventIds(ev, k)) : k \in DOMAIN ev} |->
                    EventElement(ev, id)],
    ties |-> {<<2 * k - 3, 2 * k - 1>> : k \in {j \in DOMAIN ev : ev[j].kind = "tied"}},
    measures |-> [m \in DOMAIN score |->
                    [ count |-> MeasurePattern(score[m]).count,
                      unit |-> MeasurePattern(score[m]).unit,
                      right |-> "single" ]],
    timemap |-> [k \in 1..(Len(ev) + 1) |->
                   [ qstamp |-> SumSeq([j \in 1..(k - 1) |-> ev[j].dur]),
                     on |-> EventIds(ev, k),
                     off |-> EventIds(ev, k - 1),
                     measureOn |-> IF k <= Len(ev) /\ ev[k].first
                                   THEN ev[k].measure ELSE Null ]] ]

BuildScoreDoc(score) == DocOfEvents(score, FlatEvents(score, 1))

------------------------------------------------------------------------------
(* load() and the start of _parseAndAnnotateMei *)

NullSequence == [isNull |-> TRUE, notes |-> <<>>, tempos |-> <<>>, totalTime |-> 0]

NoInput ==
  [ score |-> <<>>, sections |-> <<>>, fermatas |-> <<>>,
    midi |-> [kind |-> "none", tempo |-> [at |-> 0, qpm |-> 120]], engine |-> "score" ]

\* numChordPositions: timemap entries with something starting (line 901)
NumChordPositions(d) ==
  Cardinality({i \in 1..Len(d.timemap) : d.timemap[i].on # <<>>})

\* this._scoreData as load() creates it (lines 195-209), with the tables
\* _parseAndAnnotateMei sets up before its indexing loop (lines 759-909)
InitScoreData(d, inp, parts) ==
  [ notesAndRestsById |-> GatherNotesAndRests(d),
    measures |-> GatherMeasures(d),
    staffNumbers |-> d.staffNumbers,
    numChordPositions |-> NumChordPositions(d),
    parts |-> parts,
    chordPositions |-> <<>>,
    audibleChordPositions |-> <<>>,
    sections |-> inp.sections,
    fermatas |-> inp.fermatas,
    expandedChordPositions |-> <<>>,
    audibleExpandedChordPositions |-> <<>>,
    midiNoteSequence |-> NullSequence,
    midiType |-> "null",
    metronomeBeats |-> <<>> ]

------------------------------------------------------------------------------
(* Sections and the expanded chord positions *)

\* a chordPositionRange without staffNumbers (null) carries <<Null>>
NullStaffNumbers == <<Null>>

ChordPositionRange(start, end, staffNumbers) ==
  [start |-> start, end |-> end, staffNumbers |-> staffNumbers]

Section(sectionId, type, pauseAfter, chordPositionRanges) ==
  [ sectionId |-> sectionId, type |-> type, pauseAfter |-> pauseAfter,
    chordPositionRanges |-> chordPositionRanges,
    expandedChordPositionStart |-> Null, expandedChordPositionEnd |-> Null ]

\* a default section that stops one chord position early
ShortDefaultSection(sd) ==
  << Section("unknown", "unknown", FALSE,
             << ChordPositionRange(0, sd.numChordPositions - 1, sd.staffNumbers) >>) >>

\* generateDefaultSection on the range [0, numChordPositions]
generateDefaultSection(sd) ==
  << Section("unknown", "unknown", FALSE,
             << ChordPositionRange(0, sd.numChordPositions, sd.staffNumbers) >>) >>

\* _normalizeSections for a score without lyrics, repeats or intro brackets:
\* sections given to load() are kept in their order, otherwise the default
\* section is generated
NormalizeSections(sd) ==
  IF Len(sd.sections) > 0 THEN sd.sections ELSE generateDefaultSection(sd)

\* expandedChordPositionInfo (lines 1222-1234) and its bookkeeping
\* (lines 1235-1256) for chord position cp of range ri of section si
ExpandPosition(acc, si, staffNumbers, cp) ==
  [ q |-> acc.q + Num(acc.sd.chordPositions[cp + 1].durationQ),
    sd |-> [acc.sd EXCEPT
      !.expandedChordPositions =
         Append(@, [ chordPosition |-> cp,
                     startQ |-> acc.q,
                     endQ |-> acc.q + Num(acc.sd.chordPositions[cp + 1].durationQ),
                     sectionId |-> acc.sd.sections[si].sectionId,
                     staffNumbers |-> staffNumbers,
                     lyricSyllables |-> <<>>,
                     lyricIsSkipSymbol |-> FALSE,
                     midiNotes |-> <<>>,
                     midiStartTime |-> Null,
                     midiEndTime |-> Null ]),
      !.audibleExpandedChordPositions =
         IF acc.sd.chordPositions[cp + 1].isAudible
         THEN Append(@, Len(acc.sd.expandedChordPositions)) ELSE @,
      !.chordPositions[cp + 1].expandedChordPositions =
         Append(@, <<acc.sd.sections[si].sectionId, Len(acc.sd.expandedChordPositions)>>),
      !.sections[si].expandedChordPositionStart =
         IF @ = Null THEN Len(acc.sd.expandedChordPositions) ELSE @,
      !.sections[si].expandedChordPositionEnd = Len(acc.sd.expandedChordPositions) ] ]

\* "for (let chordPosition = start; chordPosition < end; chordPosition++)",
\* skipping chord positions that do not exist
RECURSIVE ExpandRangeFrom(_, _, _, _, _)
ExpandRangeFrom(acc, si, ri, staffNumbers, cp) ==
  IF cp >= acc.sd.sections[si].chordPositionRanges[ri].end THEN acc
  ELSE ExpandRangeFrom(
         IF cp >= 0 /\ cp < Len(acc.sd.chordPositions)
         THEN ExpandPosition(acc, si, staffNumbers, cp) ELSE acc,
         si, ri, staffNumbers, cp + 1)

\* ranges taken as they are given
KeepRangeEnd(acc, si, ri) == acc

\* line 1180: a range without end (or with end 0) ends with the score
DefaultRangeEnd(acc, si, ri) ==
  [acc EXCEPT !.sd.sections[si].chordPositionRanges[ri].end =
                 IF @ = Null \/ @ = 0 THEN Len(acc.sd.chordPositions) ELSE @]

\* the loops over sections and their ranges, from range ri of section si on
RECURSIVE ExpandFrom(_, _, _)
ExpandFrom(acc, si, ri) ==
  IF si > Len(acc.sd.sections) THEN acc
  ELSE IF ri > Len(acc.sd.sections[si].chordPositionRanges)
  THEN ExpandFrom(acc, si + 1, 1)
  ELSE ExpandFrom(
         ExpandRangeFrom(DefaultRangeEnd(acc, si, ri), si, ri,
            IF acc.sd.sections[si].chordPositionRanges[ri].staffNumbers = NullStaffNumbers
            THEN acc.sd.staffNumbers
            ELSE acc.sd.sections[si].chordPositionRanges[ri].staffNumbers,
            acc.sd.sections[si].chordPositionRanges[ri].start),
         si, ri + 1)

\* lines 1174-1259
Expand(sd) ==
  ExpandFrom([sd |-> [sd EXCEPT !.expandedChordPositions = <<>>,
                                !.audibleExpandedChordPositions = <<>>],
              q |-> 0], 1, 1).sd

\* _parseAndAnnotateMei: index the timemap, normalize the sections, expand
ParseIndexed(r) ==
  IF r.threw THEN r
  ELSE [ sd |-> Expand([r.sd EXCEPT !.sections = NormalizeSections(r.sd)]),
         lv |-> r.lv, threw |-> FALSE ]

ParseAndAnnotateMei(d, sd) == ParseIndexed(IndexFrom(d, sd, InitLoopVars))

------------------------------------------------------------------------------
(* MIDI note sequences.  Times are in milliseconds; tempos in quarter      *)
(* notes per minute.                                                       *)

\* _getMidiDuration: durationQ / (quartersPerMinute / 60), in milliseconds
getMidiDuration(durationQ, quartersPerMinute) ==
  (durationQ * 30000) \div quartersPerMinute

MidiNote(startTime, endTime, pitch) ==
  [startTime |-> startTime, endTime |-> endTime, pitch |-> pitch,
   expandedChordPosition |-> Null]

\* a tempo profile: 120 from the start, tp.qpm from the tp.at-th chord
\* position played on (tp.at >= 2; tp.at = 0: no change)
QpmAt(tp, k) == IF tp.at >= 2 /\ k >= tp.at THEN tp.qpm ELSE 120

\* the time at which the k-th chord position of the order is played
PlayTime(sd, order, tp, k) ==
  SumSeq([j \in 1..(k - 1) |->
            getMidiDuration(sd.chordPositions[order[j] + 1].durationQ, QpmAt(tp, j))])

\* the sounding length of a note: its own and that of the note tied to it
SoundingQ(sd, id) ==
  Num(sd.notesAndRestsById[id].durationQ)
    + (IF sd.notesAndRestsById[id].tiedNoteId # Null
       THEN Num(sd.notesAndRestsById[sd.notesAndRestsById[id].tiedNoteId].durationQ)
       ELSE 0)

\* the MIDI notes of the audible notes of the k-th chord position played
RECURSIVE ChordMidiNotes(_, _, _, _)
ChordMidiNotes(sd, ids, time, qpm) ==
  IF ids = <<>> THEN <<>>
  ELSE ChordMidiNotes(sd, Tail(ids), time, qpm)
       \o (IF sd.notesAndRestsById[Head(ids)].isAudible
           THEN << MidiNote(time, time + getMidiDuration(SoundingQ(sd, Head(ids)), qpm),
                            sd.notesAndRestsById[Head(ids)].pitch) >>
           ELSE <<>>)

RECURSIVE PlayedNotes(_, _, _, _)
PlayedNotes(sd, order, tp, k) ==
  IF k > Len(order) THEN <<>>
  ELSE (CHOOSE r \in { ChordMidiNotes(sd, sd.chordPositions[order[k] + 1].notesAndRests,
                                       time, QpmAt(tp, k)) :
                          time \in {PlayTime(sd, order, tp, k)} } : TRUE)
       \o PlayedNotes(sd, order, tp, k + 1)

\* a performance of the chord positions in the given order
Performance(sd, order, tp) ==
  [ isNull |-> FALSE,
    notes |-> PlayedNotes(sd, order, tp, 1),
    tempos |-> <<[time |-> 0, qpm |-> 120]>>
               \o (IF tp.at >= 2 /\ tp.at <= Len(order)
                   THEN <<[time |-> PlayTime(sd, order, tp, tp.at), qpm |-> tp.qpm]>>
                   ELSE <<>>),
    totalTime |-> PlayTime(sd, order, tp, Len(order) + 1) ]

WrittenOrder(sd) == [i \in DOMAIN sd.chordPositions |-> i - 1]

ExpandedOrder(sd) ==
  [e \in DOMAIN sd.expandedChordPositions |-> sd.expandedChordPositions[e].chordPosition]

SteadyTempo == [at |-> 0, qpm |-> 120]

\* one more note after the end of the sequence
WithExtraNote(seq) ==
  [seq EXCEPT !.notes = Append(@, MidiNote(seq.totalTime, seq.totalTime + 250, 60)),
              !.totalTime = @ + 250]

\* the sequence without the notes of its last start time
WithoutLastOnset(seq) ==
  [seq EXCEPT !.notes =
     SelectSeq(@, LAMBDA n : \E j \in DOMAIN seq.notes : seq.notes[j].startTime > n.startTime)]

\* renderToMIDI of the plain document at the tempo of the score; an engine
\* whose output has one onset more than the score has audible chord
\* positions is the mismatch case of _loadMidi
EngineMidi(sd, engine) ==
  IF engine = "score" THEN Performance(sd, WrittenOrder(sd), SteadyTempo)
  ELSE WithExtraNote(Performance(sd, WrittenOrder(sd), SteadyTempo))

\* the MIDI given to load(): none, or a performance in written order
\* ("minimal") or in playback order ("complete"), possibly with every note
\* twice ("doubled"), one onset short ("short") or one onset long ("long")
ExternalMidi(sd, midi) ==
  CASE midi.kind = "minimal" -> Performance(sd, WrittenOrder(sd), midi.tempo)
    [] midi.kind = "complete" -> Performance(sd, ExpandedOrder(sd), midi.tempo)
    [] midi.kind = "doubled" ->
         [Performance(sd, WrittenOrder(sd), midi.tempo) EXCEPT !.notes = @ \o @]
    [] midi.kind = "short" -> WithoutLastOnset(Performance(sd, WrittenOrder(sd), midi.tempo))
    [] midi.kind = "long" -> WithExtraNote(Performance(sd, WrittenOrder(sd), midi.tempo))
    [] OTHER -> NullSequence

------------------------------------------------------------------------------
(* _loadMidi: de-duplication, classification, chord position buckets *)

\* lines 383-393: the first note of every (startTime, endTime, pitch) key
filteredNotes(notes) ==
  SelectSeq([i \in DOMAIN notes |->
               IF \E j \in 1..(i - 1) :
                    /\ notes[j].startTime = notes[i].startTime
                    /\ notes[j].endTime = notes[i].endTime
                    /\ notes[j].pitch = notes[i].pitch
               THEN [notes[i] EXCEPT !.pitch = Null] ELSE notes[i]],
            LAMBDA n : n.pitch # Null)

\* line 394: by start time, then pitch, then duration
MidiNoteBefore(a, b) ==
  \/ a.startTime < b.startTime
  \/ a.startTime = b.startTime /\ a.pitch < b.pitch
  \/ a.startTime = b.startTime /\ a.pitch = b.pitch
       /\ a.endTime - a.startTime < b.endTime - b.startTime

RECURSIVE InsertMidiNote(_, _)
InsertMidiNote(sorted, n) ==
  IF sorted = <<>> THEN <<n>>
  ELSE IF MidiNoteBefore(n, Head(sorted)) THEN <<n>> \o sorted
  ELSE <<Head(sorted)>> \o InsertMidiNote(Tail(sorted), n)

RECURSIVE SortMidiNotes(_)
SortMidiNotes(notes) ==
  IF notes = <<>> THEN <<>>
  ELSE CHOOSE r \in { InsertMidiNote(sorted, notes[Len(notes)]) :
                       sorted \in {SortMidiNotes(SubSeq(notes, 1, Len(notes) - 1))} } : TRUE

\* line 395: the distinct start times in ascending order
RECURSIVE SortedTimes(_)
SortedTimes(S) ==
  IF S = {} THEN <<>>
  ELSE CHOOSE r \in { <<t>> \o SortedTimes(S \ {t}) :
                       t \in {u \in S : \A w \in S : u <= w} } : TRUE

midiNoteStartTimes(notes) ==
  CHOOSE r \in { SortedTimes({filtered[i].startTime : i \in DOMAIN filtered}) :
                   filtered \in {filteredNotes(notes)} } : TRUE

\* the classification with the written-order count tested first
MinimalFirst(sd) ==
  IF Len(midiNoteStartTimes(sd.midiNoteSequence.notes)) = Len(sd.audibleChordPositions)
  THEN "minimal"
  ELSE IF Len(midiNoteStartTimes(sd.midiNoteSequence.notes)) = Len(sd.audibleExpandedChordPositions)
  THEN "complete"
  ELSE "mismatch"

\* lines 398-411: the midiType a sequence gets, "mismatch" when neither count fits
Classify(sd) ==
  IF Len(midiNoteStartTimes(sd.midiNoteSequence.notes)) = Len(sd.audibleExpandedChordPositions)
  THEN "complete"
  ELSE IF Len(midiNoteStartTimes(sd.midiNoteSequence.notes)) = Len(sd.audibleChordPositions)
  THEN "minimal"
  ELSE "mismatch"

\* indexOf
IndexOf(seq, x) == (CHOOSE i \in DOMAIN seq : seq[i] = x) - 1

\* _getQpmAtTime: the last tempo at or before the time
getQpmAtTime(time, midiTempos) ==
  midiTempos[CHOOSE i \in DOMAIN midiTempos :
               /\ midiTempos[i].time <= time
               /\ \A j \in DOMAIN midiTempos : midiTempos[j].time <= time => j <= i].qpm

\* lines 431-445: the previous audible chord position ends where the new one
\* starts; a chord position right before the new one that has no start time
\* yet (a rest) takes its duration out of the previous audible one
ClosePrevious(cps, cp, prev, time) ==
  [i \in DOMAIN cps |->
     IF cp >= 1 /\ cps[cp].midiStartTime = Null
     THEN (IF i = prev + 1
           THEN [cps[i] EXCEPT
                   !.midiEndTime =
                      time - getMidiDuration(Num(cps[cp].durationQ), cps[prev + 1].midiQpm),
                   !.midiDuration =
                      time - cps[i].midiStartTime
                        - getMidiDuration(Num(cps[cp].durationQ), cps[prev + 1].midiQpm)]
           ELSE IF i = cp
           THEN [cps[i] EXCEPT
                   !.midiQpm = cps[prev + 1].midiQpm,
                   !.midiStartTime =
                      time - getMidiDuration(Num(cps[cp].durationQ), cps[prev + 1].midiQpm),
                   !.midiEndTime = time,
                   !.midiDuration =
                      getMidiDuration(Num(cps[cp].durationQ), cps[prev + 1].midiQpm)]
           ELSE cps[i])
     ELSE (IF i = prev + 1
           THEN [cps[i] EXCEPT !.midiEndTime = time,
                               !.midiDuration = time - cps[i].midiStartTime]
           ELSE cps[i])]

\* lines 426-447
StartPosition(cps, cp, prev, time, qpm) ==
  IF cp = prev THEN cps
  ELSE IF prev = Null
  THEN [cps EXCEPT ![cp + 1].midiStartTime = time, ![cp + 1].midiQpm = qpm]
  ELSE ClosePrevious([cps EXCEPT ![cp + 1].midiStartTime = time, ![cp + 1].midiQpm = qpm],
                     cp, prev, time)

\* lines 448-452
PushMidiNote(cps, cp, midiNote) ==
  [cps EXCEPT ![cp + 1].midiEndTime = IF Num(@) > midiNote.endTime THEN Num(@)
                                      ELSE midiNote.endTime,
              ![cp + 1].midiNotesByPitch = Append(@, midiNote)]

\* lines 416-424: the chord position and expanded chord position of a start time
BucketOf(sd, midiType, startTimeIndex) ==
  IF midiType = "minimal"
  THEN [cp |-> sd.audibleChordPositions[startTimeIndex + 1], ecp |-> Null]
  ELSE [cp |-> sd.expandedChordPositions[
                  sd.audibleExpandedChordPositions[startTimeIndex + 1] + 1].chordPosition,
        ecp |-> sd.audibleExpandedChordPositions[startTimeIndex + 1]]

\* one iteration of "for (const midiNote of midiNoteSequence.notes)"
BucketNote(acc, midiNote, b, tempos) ==
  [ cps |-> PushMidiNote(
               StartPosition(acc.cps, b.cp, acc.prev, midiNote.startTime,
                             getQpmAtTime(midiNote.startTime, tempos)),
               b.cp, [midiNote EXCEPT !.expandedChordPosition = b.ecp]),
    prev |-> b.cp ]

RECURSIVE BucketFrom(_, _, _, _, _, _)
BucketFrom(sd, midiType, notes, startTimes, k, acc) ==
  IF k > Len(notes) THEN acc
  ELSE CHOOSE r \in
         { BucketFrom(sd, midiType, notes, startTimes, k + 1, next) :
             next \in { BucketNote(acc, notes[k],
                                   BucketOf(sd, midiType, IndexOf(startTimes, notes[k].startTime)),
                                   sd.midiNoteSequence.tempos) } } : TRUE

\* lines 455-456; previousAudibleChordPositionInfo is undefined when the
\* sequence has no notes
BucketFinish(acc, totalTime) ==
  IF acc.prev = Null THEN [cps |-> acc.cps, threw |-> TRUE]
  ELSE [cps |-> [acc.cps EXCEPT ![acc.prev + 1].midiEndTime = totalTime,
                                ![acc.prev + 1].midiDuration =
                                   totalTime - acc.cps[acc.prev + 1].midiStartTime],
        threw |-> FALSE]

\* lines 413-456: [cps, threw]
Bucket(sd, midiType, notes) ==
  CHOOSE r \in
    { BucketFinish(acc, sd.midiNoteSequence.totalTime) :
        acc \in { BucketFrom(sd, midiType, notes, startTimes, 1,
                             [cps |-> sd.chordPositions, prev |-> Null]) :
                    startTimes \in {midiNoteStartTimes(notes)} } } : TRUE

------------------------------------------------------------------------------
(* _loadMidi: fermatas *)

Fermata(chordPosition, durationFactor) ==
  [chordPosition |-> chordPosition, durationFactor |-> durationFactor]

\* lines 468-471: the nearest earlier chord position not yet in
\* fermataAdjustedChordPositions, -1 when there is none
PreviousCpWithoutFermata(adjusted, chordPosition) ==
  IF \E p \in 0..(chordPosition - 1) : ~Includes(adjusted, p)
  THEN CHOOSE p \in 0..(chordPosition - 1) :
         /\ ~Includes(adjusted, p)
         /\ \A r \in (p + 1)..(chordPosition - 1) : Includes(adjusted, r)
  ELSE -1

\* line 472: "midiQpm < previous midiQpm * 0.7", null counting as 0
SignificantTempoDrop(cps, chordPosition, previousCp) ==
  /\ previousCp >= 0
  /\ Num(cps[chordPosition + 1].midiQpm) * 10 < Num(cps[previousCp + 1].midiQpm) * 7

\* a lengthening that moves the end time but keeps the duration
LengthenEndTime(info, durationFactor) ==
  [info EXCEPT
     !.midiEndTime = Num(@) + (Num(info.midiDuration) * durationFactor - Num(info.midiDuration))]

\* lines 476-483: the duration, the end time and the end times of the
\* chord position's MIDI notes grow by the offset
LengthenPosition(info, durationFactor) ==
  [info EXCEPT
     !.midiDuration = Num(@) + (Num(@) * durationFactor - Num(@)),
     !.midiEndTime = Num(@) + (Num(info.midiDuration) * durationFactor - Num(info.midiDuration)),
     !.midiNotesByPitch =
        [k \in DOMAIN @ |->
           [@[k] EXCEPT !.endTime =
              @ + (Num(info.midiDuration) * durationFactor - Num(info.midiDuration))]]]

\* one iteration of "for (const fermata of this._scoreData.fermatas)";
\* a chord position that does not exist has no midiQpm to read
ApplyFermata(acc, fermata) ==
  IF acc.threw \/ fermata.durationFactor <= 1 \/ Includes(acc.adjusted, fermata.chordPosition)
  THEN acc
  ELSE IF fermata.chordPosition < 0 \/ fermata.chordPosition >= Len(acc.cps)
  THEN [acc EXCEPT !.threw = TRUE]
  ELSE IF SignificantTempoDrop(acc.cps, fermata.chordPosition,
             PreviousCpWithoutFermata(Append(acc.adjusted, fermata.chordPosition),
                                      fermata.chordPosition))
  THEN [acc EXCEPT !.adjusted = Append(@, fermata.chordPosition)]
  ELSE [acc EXCEPT !.adjusted = Append(@, fermata.chordPosition),
                   !.cps[fermata.chordPosition + 1] =
                      LengthenPosition(@, fermata.durationFactor)]

RECURSIVE FermatasFrom(_, _, _)
FermatasFrom(fermatas, k, acc) ==
  IF k > Len(fermatas) THEN acc
  ELSE CHOOSE r \in { FermatasFrom(fermatas, k + 1, next) :
                       next \in {ApplyFermata(acc, fermatas[k])} } : TRUE

\* lines 458-486: [cps, adjusted, threw]
AdjustFermatas(fermatas, cps) ==
  FermatasFrom(fermatas, 1, [cps |-> cps, adjusted |-> <<>>, threw |-> FALSE])

------------------------------------------------------------------------------
(* _loadMidi: the expansion clock and the alignment with the score's notes *)

\* chordPositionInfo.expandedChordPositions[sectionId], [] when absent
ExpandedOf(info, sectionId) ==
  SelectSeq(info.expandedChordPositions, LAMBDA pr : pr[1] = sectionId)

\* lines 527-541 and 551: whether the note of a chord position gets a MIDI
\* note at expanded chord position e
Aligns(sd, cps, e, id) ==
  /\ Includes(sd.expandedChordPositions[e + 1].staffNumbers,
              sd.notesAndRestsById[id].staffNumber)
  /\ ~sd.expandedChordPositions[e + 1].lyricIsSkipSymbol
  /\ sd.notesAndRestsById[id].isAudible
  /\ \E k \in DOMAIN cps[sd.expandedChordPositions[e + 1].chordPosition + 1].midiNotesByPitch :
        cps[sd.expandedChordPositions[e + 1].chordPosition + 1].midiNotesByPitch[k].pitch
          = sd.notesAndRestsById[id].pitch
  /\ sd.notesAndRestsById[id].tiedNoteId # Null =>
        ExpandedOf(cps[sd.notesAndRestsById[sd.notesAndRestsById[id].tiedNoteId].chordPosition + 1],
                   sd.expandedChordPositions[e + 1].sectionId) # <<>>

\* lines 543-544: the longest of the MIDI notes of the pitch that belong to
\* this expanded chord position or to none (Null when there is none)
ReferenceDuration(midiNotes, pitch, e) ==
  IF \E k \in DOMAIN midiNotes :
       midiNotes[k].pitch = pitch /\ midiNotes[k].expandedChordPosition \in {e, Null}
  THEN CHOOSE dur \in {midiNotes[k].endTime - midiNotes[k].startTime : k \in DOMAIN midiNotes} :
         /\ \E k \in DOMAIN midiNotes :
               /\ midiNotes[k].pitch = pitch
               /\ midiNotes[k].expandedChordPosition \in {e, Null}
               /\ midiNotes[k].endTime - midiNotes[k].startTime = dur
         /\ \A k \in DOMAIN midiNotes :
               (midiNotes[k].pitch = pitch /\ midiNotes[k].expandedChordPosition \in {e, Null})
                 => midiNotes[k].endTime - midiNotes[k].startTime <= dur
  ELSE Null

\* createMidiNote for a note without lyrics on its tied note (lines 566, 573)
createMidiNote(sd, id, startTime, duration) ==
  [ startTime |-> startTime,
    endTime |-> startTime + duration,
    pitch |-> sd.notesAndRestsById[id].pitch,
    meiNotes |-> IF sd.notesAndRestsById[id].tiedNoteId # Null
                 THEN <<id, sd.notesAndRestsById[id].tiedNoteId>> ELSE <<id>> ]

\* expandedChordPositionInfo.midiNotes after lines 524-577
AlignedNotes(sd, cps, e, startTimeCounter) ==
  [k \in DOMAIN SelectSeq(cps[sd.expandedChordPositions[e + 1].chordPosition + 1].notesAndRests,
                          LAMBDA id : Aligns(sd, cps, e, id)) |->
     createMidiNote(sd,
        SelectSeq(cps[sd.expandedChordPositions[e + 1].chordPosition + 1].notesAndRests,
                  LAMBDA id : Aligns(sd, cps, e, id))[k],
        startTimeCounter,
        ReferenceDuration(
           cps[sd.expandedChordPositions[e + 1].chordPosition + 1].midiNotesByPitch,
           sd.notesAndRestsById[
              SelectSeq(cps[sd.expandedChordPositions[e + 1].chordPosition + 1].notesAndRests,
                        LAMBDA id : Aligns(sd, cps, e, id))[k]].pitch,
           e))]

\* a pause before the first expanded chord position of the section
PauseBefore(sd, e) ==
  IF \E si \in DOMAIN sd.sections :
       /\ sd.sections[si].sectionId = sd.expandedChordPositions[e + 1].sectionId
       /\ sd.sections[si].expandedChordPositionStart = e
       /\ sd.sections[si].pauseAfter
  THEN 250 ELSE 0

\* line 580: a quarter of a second after the last expanded chord position
\* of a section with pauseAfter
PauseAfter(sd, e) ==
  IF \E si \in DOMAIN sd.sections :
       /\ sd.sections[si].sectionId = sd.expandedChordPositions[e + 1].sectionId
       /\ sd.sections[si].expandedChordPositionEnd = e
       /\ sd.sections[si].pauseAfter
  THEN 250 ELSE 0

\* one iteration of the loop over the expanded chord positions (lines 492-583)
ClockPosition(sd, cps, e, acc) ==
  [ startTimeCounter |->
       acc.startTimeCounter
         + Num(cps[sd.expandedChordPositions[e + 1].chordPosition + 1].midiDuration)
         + PauseAfter(sd, e),
    expanded |->
       [acc.expanded EXCEPT
          ![e + 1].midiStartTime = acc.startTimeCounter,
          ![e + 1].midiNotes = AlignedNotes(sd, cps, e, acc.startTimeCounter),
          ![e + 1].midiEndTime =
             acc.startTimeCounter
               + Num(cps[sd.expandedChordPositions[e + 1].chordPosition + 1].midiDuration)
               + PauseAfter(sd, e)] ]

RECURSIVE ClockFrom(_, _, _, _)
ClockFrom(sd, cps, e, acc) ==
  IF e >= Len(sd.expandedChordPositions) THEN acc
  ELSE CHOOSE r \in { ClockFrom(sd, cps, e + 1, next) :
                       next \in {ClockPosition(sd, cps, e, acc)} } : TRUE

\* lines 488-585: [expanded, startTimeCounter]
ExpandMidi(sd, cps) ==
  ClockFrom(sd, cps, 0, [expanded |-> sd.expandedChordPositions, startTimeCounter |-> 0])

------------------------------------------------------------------------------
(* _loadMidi: metronome beats *)

\* a conversion that counts every note of the unit as a beat
BpmOfUnit(timeSignature) ==
  CASE timeSignature[2] = 1 -> <<1, 4>>
    [] timeSignature[2] = 2 -> <<1, 2>>
    [] timeSignature[2] = 8 -> <<2, 1>>
    [] timeSignature[2] = 16 -> <<4, 1>>
    [] OTHER -> <<1, 1>>

\* convertQpmToMetronomeBpm as the fraction <<n, d>> with
\* metronomeBpm = qpm * n / d; the simple meters are tested first
convertQpmToMetronomeBpm(timeSignature) ==
  LET count == timeSignature[1]
      unit == timeSignature[2]
  IN CASE unit = 1 /\ count \in 1..5 -> <<1, 4>>
       [] unit = 2 /\ count \in 1..5 -> <<1, 2>>
       [] unit = 4 /\ count \in 1..5 -> <<1, 1>>
       [] unit = 8 /\ count \in {1, 2, 3, 4, 5, 7, 8, 10, 11, 13, 14, 15} -> <<2, 1>>
       [] unit = 16 /\ count \in {1, 2, 3, 4, 5, 7, 8, 10, 11, 13, 14, 15} -> <<4, 1>>
       [] unit = 2 /\ count \in {6, 9, 12, 15, 18, 21, 24} -> <<1, 6>>
       [] unit = 4 /\ count \in {6, 9, 12, 15, 18, 21, 24} -> <<1, 3>>
       [] unit = 8 /\ count \in {6, 9, 12, 15, 18, 21, 24} -> <<2, 3>>
       [] unit = 16 /\ count \in {6, 9, 12, 15, 18, 21, 24} -> <<4, 3>>
       [] OTHER -> <<1, 1>>

\* Math.round(beatsPerMinute); a null tempo counts as 0
RoundedBpm(qpm, timeSignature) ==
  (2 * Num(qpm) * convertQpmToMetronomeBpm(timeSignature)[1]
     + convertQpmToMetronomeBpm(timeSignature)[2])
    \div (2 * convertQpmToMetronomeBpm(timeSignature)[2])

\* durationQToNextBeat = quartersPerMinute / beatsPerMinute, in ticks
\* (not a number when the tempo is null: 0 / 0)
DurationQToNextBeat(timeSignature) ==
  (TicksPerQ * convertQpmToMetronomeBpm(timeSignature)[2])
    \div convertQpmToMetronomeBpm(timeSignature)[1]

\* _binaryFind with findType 'last-lte' on the startQ of the expanded chord
\* positions: the index found, -1 when there is none
RECURSIVE binaryFind(_, _, _, _, _)
binaryFind(arr, targetValue, leftIndex, rightIndex, targetIndex) ==
  IF leftIndex > rightIndex THEN targetIndex
  ELSE IF arr[(leftIndex + rightIndex) \div 2 + 1].startQ <= targetValue
  THEN binaryFind(arr, targetValue, (leftIndex + rightIndex) \div 2 + 1, rightIndex,
                  (leftIndex + rightIndex) \div 2)
  ELSE binaryFind(arr, targetValue, leftIndex, (leftIndex + rightIndex) \div 2 - 1,
                  targetIndex)

\* lines 648-673 for a beat at startQ inside expanded chord position info
\* of chord position cpInfo
PushBeat(acc, startQ, info, cpInfo, timeSignature) ==
  [ beats |-> Append(acc.beats,
       [ startQ |-> startQ,
         isDownbeat |-> startQ = info.startQ /\ cpInfo.isDownbeat,
         beatNumber |-> IF startQ = info.startQ /\ cpInfo.isDownbeat THEN 1
                        ELSE acc.beatNumber,
         midiBpm |-> RoundedBpm(cpInfo.midiQpm, timeSignature),
         midiStartTime |->
            IF startQ = info.startQ THEN info.midiStartTime
            ELSE IF cpInfo.midiQpm = Null THEN Null
            ELSE info.midiStartTime + getMidiDuration(startQ - info.startQ, cpInfo.midiQpm) ]),
    beatNumber |-> IF startQ = info.startQ /\ cpInfo.isDownbeat THEN 2
                   ELSE IF acc.beatNumber # Null /\ acc.beatNumber # 0
                   THEN acc.beatNumber + 1 ELSE acc.beatNumber,
    startQ |-> startQ + DurationQToNextBeat(timeSignature),
    isNaN |-> cpInfo.midiQpm = Null ]

\* one iteration of "while (startQ < totalQ)" (lines 634-673)
BeatStep(sd, acc, info, cpInfo, measureInfo) ==
  IF /\ measureInfo.measureType = "partial-pickup"
     /\ (cpInfo.midiQpm = Null
         \/ measureInfo.durationQ % DurationQToNextBeat(measureInfo.timeSignature) # 0)
  THEN [acc EXCEPT !.startQ = @ + measureInfo.durationQ]
  ELSE PushBeat(acc, acc.startQ, info, cpInfo, measureInfo.timeSignature)

RECURSIVE BeatsFrom(_, _)
BeatsFrom(sd, acc) ==
  IF acc.isNaN \/ acc.startQ >= sd.expandedChordPositions[Len(sd.expandedChordPositions)].endQ
  THEN acc
  ELSE CHOOSE r \in
         { BeatsFrom(sd, next) :
             next \in
               { BeatStep(sd, acc, info,
                          sd.chordPositions[info.chordPosition + 1],
                          sd.measures[sd.chordPositions[info.chordPosition + 1].measureId]) :
                   info \in { sd.expandedChordPositions[
                                 binaryFind(sd.expandedChordPositions, acc.startQ,
                                            0, Len(sd.expandedChordPositions) - 1, -1) + 1] } } }
         : TRUE

\* lines 678-693: the beats before the first numbered one count down from
\* the last beat number of the first numbered measure
NumBeatsWithoutBeatNumbers(beats, stop) ==
  Cardinality({b \in 1..(stop - 1) : beats[b].beatNumber \in {Null, 0}})

\* the index at which the first loop breaks (Len + 1 when it does not)
BackFillStop(beats) ==
  IF \E b \in DOMAIN beats :
       beats[b].beatNumber = 1 /\ b > 1 /\ beats[b - 1].beatNumber \notin {Null, 0}
          /\ beats[b - 1].beatNumber >= 1
  THEN CHOOSE b \in DOMAIN beats :
         /\ beats[b].beatNumber = 1 /\ b > 1 /\ beats[b - 1].beatNumber \notin {Null, 0}
         /\ beats[b - 1].beatNumber >= 1
         /\ \A c \in 1..(b - 1) :
               ~(beats[c].beatNumber = 1 /\ c > 1 /\ beats[c - 1].beatNumber \notin {Null, 0}
                 /\ beats[c - 1].beatNumber >= 1)
  ELSE Len(beats) + 1

\* previousBeatNumber when the first loop ends (Null: undefined)
BackFillFrom(beats, stop) == IF stop = 1 THEN Null ELSE beats[stop - 1].beatNumber

BackFill(beats, n, previousBeatNumber) ==
  [b \in DOMAIN beats |->
     IF b <= n
     THEN [beats[b] EXCEPT !.beatNumber =
             IF previousBeatNumber = Null THEN Null ELSE previousBeatNumber - (n - b)]
     ELSE beats[b]]

FillBeatNumbers(beats) ==
  IF beats[1].beatNumber \notin {Null, 0} THEN beats
  ELSE BackFill(beats, NumBeatsWithoutBeatNumbers(beats, BackFillStop(beats)),
                BackFillFrom(beats, BackFillStop(beats)))

\* lines 629-693: [beats, threw]; expandedChordPositions[0] and
\* metronomeBeats[0] are undefined when the lists are empty
MetronomeBeatsOf(acc) ==
  IF acc.beats = <<>> THEN [beats |-> <<>>, threw |-> TRUE]
  ELSE [beats |-> FillBeatNumbers(acc.beats), threw |-> FALSE]

MetronomeBeats(sd) ==
  IF sd.expandedChordPositions = <<>> THEN [beats |-> <<>>, threw |-> TRUE]
  ELSE CHOOSE r \in
         { MetronomeBeatsOf(acc) :
             acc \in { BeatsFrom(sd, [ beats |-> <<>>, beatNumber |-> Null,
                                       startQ |-> sd.expandedChordPositions[1].startQ,
                                       isNaN |-> FALSE ]) } } : TRUE

NoLog == [classified |-> <<>>, regenerated |-> 0, console |-> <<>>]

------------------------------------------------------------------------------
(* Specification SpecIndex: the indexing loop, entry by entry *)

InitIndex ==
  /\ doc \in IndexDocs
  /\ inputData = NoInput
  /\ scoreData = InitScoreData(doc, inputData, DefaultParts(doc.staffNumbers))
  /\ loopVars = InitLoopVars
  /\ midiLog = NoLog
  /\ currentOptions = defaultOptions
  /\ pc = "index"

StepIndexEntry ==
  /\ pc = "index"
  /\ loopVars.i <= Len(doc.timemap)
  /\ \E r \in {IndexEntry(doc, scoreData, loopVars, doc.timemap[loopVars.i])} :
        /\ scoreData' = r.sd
        /\ loopVars' = r.lv
        /\ pc' = IF r.threw THEN "threw" ELSE "index"
  /\ UNCHANGED <<doc, inputData, midiLog, currentOptions>>

StepIndexFinish ==
  /\ pc = "index"
  /\ loopVars.i > Len(doc.timemap)
  /\ \E r \in {IndexFinish(doc, scoreData, loopVars)} :
        /\ scoreData' = r.sd
        /\ pc' = IF r.threw THEN "threw" ELSE "indexed"
  /\ UNCHANGED <<doc, inputData, loopVars, midiLog, currentOptions>>

NextIndex == StepIndexEntry \/ StepIndexFinish

SpecIndex == InitIndex /\ [][NextIndex]_vars

------------------------------------------------------------------------------
(* Specification SpecMelody: the indexing loop on one chord position of up *)
(* to MaxMelodyNotes notes, each on staff 1 or 2 in layer 1, 2 or 3 (no    *)
(* two in the same layer of a staff), with the default parts, with a       *)
(* melody part given on both staves, or with soprano and alto on staff 1.  *)

MaxMelodyNotes == 3

MelodyNotePlaces == (1..2) \X (1..3)

MelodyPlacings ==
  UNION { { f \in [1..n -> MelodyNotePlaces] :
              \A i, j \in 1..n : i # j => f[i] # f[j] } : n \in 1..MaxMelodyNotes }

\* note i has pitch 60 + i
BuildMelodyDoc(f) ==
  [ staffNumbers |-> <<1, 2>>,
    elements |-> [id \in DOMAIN f |-> NoteElement(60 + id, f[id][1], f[id][2])],
    ties |-> {},
    measures |-> <<[count |-> 4, unit |-> 4, right |-> "single"]>>,
    timemap |-> << [ qstamp |-> 0, on |-> [i \in DOMAIN f |-> i], off |-> <<>>,
                     measureOn |-> 1 ],
                   [ qstamp |-> 4 * TicksPerQ, on |-> <<>>, off |-> [i \in DOMAIN f |-> i],
                     measureOn |-> Null ] >> ]

\* a parts object whose melody part is on both staves
MelodyOnBothStaves ==
  << [ partId |-> "melody", name |-> "Melody", isVocal |-> TRUE, placement |-> "auto",
       chordPositionRefs |->
         << [chordPosition |-> 0, isMelody |-> TRUE, staffNumbers |-> <<1, 2>>] >> ] >>

\* a parts object with soprano (melody) and alto on staff 1
SopranoAndAlto ==
  << [ partId |-> "soprano", name |-> "Soprano", isVocal |-> TRUE, placement |-> "auto",
       chordPositionRefs |->
         << [chordPosition |-> 0, isMelody |-> TRUE, staffNumbers |-> <<1>>] >> ],
     [ partId |-> "alto", name |-> "Alto", isVocal |-> TRUE, placement |-> "auto",
       chordPositionRefs |->
         << [chordPosition |-> 0, isMelody |-> FALSE, staffNumbers |-> <<1>>] >> ] >>

MelodyPartsInputs == {DefaultParts(<<1, 2>>), MelodyOnBothStaves, SopranoAndAlto}

InitMelody ==
  /\ doc \in {BuildMelodyDoc(f) : f \in MelodyPlacings}
  /\ inputData = NoInput
  /\ \E parts \in MelodyPartsInputs : scoreData = InitScoreData(doc, inputData, parts)
  /\ loopVars = InitLoopVars
  /\ midiLog = NoLog
  /\ currentOptions = defaultOptions
  /\ pc = "index"

SpecMelody == InitMelody /\ [][NextIndex]_vars

------------------------------------------------------------------------------
(* _loadMidi from the classification on (lines 413-713) *)

\* note.expandedChordPositions: where the note got a MIDI note
AlignedAt(expanded, id) ==
  SelectSeq([e \in DOMAIN expanded |-> e - 1],
            LAMBDA e : \E k \in DOMAIN expanded[e + 1].midiNotes :
                          expanded[e + 1].midiNotes[k].meiNotes[1] = id)

RECURSIVE ExpandedMidiNotes(_, _)
ExpandedMidiNotes(expanded, e) ==
  IF e > Len(expanded) THEN <<>>
  ELSE expanded[e].midiNotes \o ExpandedMidiNotes(expanded, e + 1)

AlignBeats(sd, m) == [sd |-> [sd EXCEPT !.metronomeBeats = m.beats], threw |-> m.threw]

AlignClocked(sd) == CHOOSE r \in { AlignBeats(sd, m) : m \in {MetronomeBeats(sd)} } : TRUE

AlignExpanded(sd, x) ==
  CHOOSE r \in
    { AlignClocked(clocked) :
        clocked \in
          { [sd EXCEPT
               !.expandedChordPositions = x.expanded,
               !.notesAndRestsById =
                  [id \in DOMAIN @ |->
                     [@[id] EXCEPT !.expandedChordPositions = AlignedAt(x.expanded, id)]],
               !.midiNoteSequence.notes = ExpandedMidiNotes(x.expanded, 1),
               !.midiNoteSequence.totalTime = x.startTimeCounter] } } : TRUE

AlignAdjusted(sd, f) ==
  IF f.threw THEN [sd |-> [sd EXCEPT !.chordPositions = f.cps], threw |-> TRUE]
  ELSE CHOOSE r \in { AlignExpanded(adjusted, x) :
                       adjusted \in {[sd EXCEPT !.chordPositions = f.cps]},
                       x \in {ExpandMidi(sd, f.cps)} } : TRUE

AlignBucketed(sd, b) ==
  IF b.threw THEN [sd |-> [sd EXCEPT !.chordPositions = b.cps], threw |-> TRUE]
  ELSE CHOOSE r \in { AlignAdjusted(sd, f) : f \in {AdjustFermatas(sd.fermatas, b.cps)} } : TRUE

AlignSorted(sd) ==
  CHOOSE r \in { AlignBucketed(sd, b) :
                   b \in {Bucket(sd, sd.midiType, sd.midiNoteSequence.notes)} } : TRUE

\* the sequence with its notes de-duplicated and sorted (line 394)
SortedSequence(sd) ==
  [sd EXCEPT !.midiNoteSequence.notes =
     CHOOSE r \in { SortMidiNotes(filtered) : filtered \in {filteredNotes(@)} } : TRUE]

\* [sd, threw] for a sequence classified as midiType
AlignMidi(sd, midiType) ==
  CHOOSE r \in { AlignSorted(sorted) :
                   sorted \in {[SortedSequence(sd) EXCEPT !.midiType = midiType]} } : TRUE

------------------------------------------------------------------------------
(* Inputs of load() *)

MaxMeasures == 2
MaxRange == 3
MaxFermataPosition == 2

PatternNames == {"p68", "f68", "r68", "e68", "f44", "t44", "r44"}

Scores == UNION {[1..n -> PatternNames] : n \in 1..MaxMeasures}

NumEvents(score) == Len(FlatEvents(score, 1))

ChordPositionRanges ==
  { ChordPositionRange(start, end, st) :
      start \in 0..(MaxRange - 1), end \in 0..(MaxRange + 1), st \in {NullStaffNumbers, <<1>>} }

\* section lists: none, one section of one or two ranges, or two verses
SectionLists ==
  {<<>>}
  \cup { <<Section("verse-1", "verse", FALSE, <<r>>)>> : r \in ChordPositionRanges }
  \cup { <<Section("verse-1", "verse", FALSE, <<ChordPositionRange(0, 2, NullStaffNumbers), r>>)>> :
           r \in ChordPositionRanges }
  \cup { << Section("verse-1", "verse", TRUE, <<ChordPositionRange(0, 2, <<1>>)>>),
            Section("verse-2", "verse", FALSE, <<r>>) >> : r \in ChordPositionRanges }

\* both verses of a score of n chord positions, with a pause in between
TwoVerses(n) ==
  << Section("verse-1", "verse", TRUE, <<ChordPositionRange(0, n, NullStaffNumbers)>>),
     Section("verse-2", "verse", FALSE, <<ChordPositionRange(0, n, NullStaffNumbers)>>) >>

\* one verse that leaves out the first chord position and the second staff
ShortVerse(n) == << Section("verse-1", "verse", FALSE, <<ChordPositionRange(1, n, <<1>>)>>) >>

Tempos == {SteadyTempo, [at |-> 2, qpm |-> 60], [at |-> 2, qpm |-> 100]}

MidiInputs ==
  {[kind |-> "none", tempo |-> SteadyTempo]}
  \cup { [kind |-> k, tempo |-> tp] :
           k \in {"minimal", "complete", "doubled", "short", "long"}, tp \in Tempos }

FermataLists(n) ==
  { <<Fermata(p, f)>> : p \in 0..(Min(n, MaxFermataPosition + 1) - 1), f \in {1, 2, 3} }
  \cup { <<Fermata(p, 2), Fermata(q, 2)>> :
           p \in 0..(Min(n, MaxFermataPosition + 1) - 1),
           q \in 0..(Min(n, MaxFermataPosition + 1) - 1) }

ExpansionInputs ==
  { [NoInput EXCEPT !.score = sc, !.sections = sl] : sc \in Scores, sl \in SectionLists }

MidiLoadInputs ==
  UNION { { [NoInput EXCEPT !.score = sc, !.sections = sl, !.midi = m, !.engine = en] :
              sl \in {<<>>, TwoVerses(NumEvents(sc)), ShortVerse(NumEvents(sc))},
              m \in MidiInputs, en \in {"score", "off"} }
          : sc \in Scores }

FermataInputs ==
  UNION { { [NoInput EXCEPT !.score = sc, !.sections = sl, !.midi = m, !.fermatas = fl] :
              sl \in {<<>>, TwoVerses(NumEvents(sc))},
              m \in {mi \in MidiInputs : mi.kind \in {"minimal", "complete"}},
              fl \in FermataLists(NumEvents(sc)) }
          : sc \in Scores }

LoadInputs == ExpansionInputs \cup MidiLoadInputs \cup FermataInputs

------------------------------------------------------------------------------
(* Specification Spec: load() and the invocations of _loadMidi *)

Init ==
  /\ pc = "constructed"
  /\ doc = BuildScoreDoc(<<>>)
  /\ inputData = NoInput
  /\ scoreData = InitScoreData(doc, inputData, <<>>)
  /\ loopVars = InitLoopVars
  /\ midiLog = NoLog
  /\ currentOptions = defaultOptions

\* the MIDI load() puts in scoreData (lines 187-199)
LoadedMidi(sd, inp) ==
  [sd EXCEPT
     !.midiNoteSequence = IF inp.midi.kind = "none" THEN EngineMidi(sd, inp.engine)
                          ELSE ExternalMidi(sd, inp.midi),
     !.midiType = IF inp.midi.kind = "none" THEN "verovio" ELSE "null"]

\* load() up to its call of _loadMidi, for input data from a given set
LoadFrom(inputs) ==
  /\ pc = "constructed"
  /\ \E inp \in inputs :
       \E d \in {BuildScoreDoc(inp.score)} :
         \E r \in {ParseAndAnnotateMei(d, InitScoreData(d, inp, DefaultParts(d.staffNumbers)))} :
           /\ doc' = d
           /\ inputData' = inp
           /\ scoreData' = IF r.threw THEN r.sd ELSE LoadedMidi(r.sd, inp)
           /\ loopVars' = r.lv
           /\ pc' = IF r.threw THEN "threw" ELSE "loadMidi"
  /\ UNCHANGED <<midiLog, currentOptions>>

Load == LoadFrom(LoadInputs)

\* a regeneration that does not record where the sequence came from
RegenerateKeepsType ==
  /\ pc = "loadMidi"
  /\ scoreData.midiNoteSequence.isNull
  /\ scoreData' = [scoreData EXCEPT
                     !.midiNoteSequence = EngineMidi(scoreData, inputData.engine)]
  /\ midiLog' = [midiLog EXCEPT !.regenerated = @ + 1]
  /\ UNCHANGED <<pc, doc, inputData, loopVars, currentOptions>>

\* lines 369-376: no sequence, so one is rendered by the engine
LoadMidiRegenerate ==
  /\ pc = "loadMidi"
  /\ scoreData.midiNoteSequence.isNull
  /\ scoreData' = [scoreData EXCEPT
                     !.midiNoteSequence = EngineMidi(scoreData, inputData.engine),
                     !.midiType = "verovio"]
  /\ midiLog' = [midiLog EXCEPT !.regenerated = @ + 1]
  /\ UNCHANGED <<pc, doc, inputData, loopVars, currentOptions>>

\* lines 402-405: the engine's own sequence does not fit
LoadMidiAbort ==
  /\ pc = "loadMidi"
  /\ ~scoreData.midiNoteSequence.isNull
  /\ Classify(scoreData) = "mismatch"
  /\ scoreData.midiType = "verovio"
  /\ scoreData' = SortedSequence(scoreData)
  /\ midiLog' = [midiLog EXCEPT !.classified = Append(@, "mismatch"),
                                !.console = Append(@, "error")]
  /\ pc' = "aborted"
  /\ UNCHANGED <<doc, inputData, loopVars, currentOptions>>

\* lines 406-409: a sequence from elsewhere does not fit and is dropped
LoadMidiFallback ==
  /\ pc = "loadMidi"
  /\ ~scoreData.midiNoteSequence.isNull
  /\ Classify(scoreData) = "mismatch"
  /\ scoreData.midiType # "verovio"
  /\ scoreData' = [scoreData EXCEPT !.midiNoteSequence = NullSequence]
  /\ midiLog' = [midiLog EXCEPT !.classified = Append(@, "mismatch"),
                                !.console = Append(@, "warn")]
  /\ UNCHANGED <<pc, doc, inputData, loopVars, currentOptions>>

\* lines 398-401 and 413-713: the sequence fits and is aligned
LoadMidiAlign ==
  /\ pc = "loadMidi"
  /\ ~scoreData.midiNoteSequence.isNull
  /\ Classify(scoreData) # "mismatch"
  /\ \E r \in {AlignMidi(scoreData, Classify(scoreData))} :
       /\ scoreData' = r.sd
       /\ pc' = IF r.threw THEN "threw" ELSE "loaded"
  /\ midiLog' = [midiLog EXCEPT !.classified = Append(@, Classify(scoreData))]
  /\ UNCHANGED <<doc, inputData, loopVars, currentOptions>>

Next == Load \/ LoadMidiRegenerate \/ LoadMidiAbort \/ LoadMidiFallback \/ LoadMidiAlign

Spec == Init /\ [][Next]_vars

\* _loadMidi is synchronous: once called it runs until it returns or throws
LoadMidiStep == LoadMidiRegenerate \/ LoadMidiAbort \/ LoadMidiFallback \/ LoadMidiAlign

\* load() with or without a MIDI sequence, fitting or not, and _loadMidi
\* running to its end
LoadWithMidi == LoadFrom(MidiLoadInputs)

NextLive == LoadWithMidi \/ LoadMidiStep

LiveSpec == Init /\ [][NextLive]_vars /\ WF_vars(LoadMidiStep)

------------------------------------------------------------------------------
(* C1: the chord positions created by the indexing loop are numbered       *)
(* 0..N-1 without gaps (chordPositions[i].chordPosition = i), there is one *)
(* per timemap entry processed so far that has a starting id, their startQ *)
(* is strictly increasing, and when the loop has finished N is the number  *)
(* of timemap entries with a starting id.                                  *)
C1_ChordPositionsContiguous ==
  /\ \A i \in DOMAIN scoreData.chordPositions :
        scoreData.chordPositions[i].chordPosition = i - 1
  /\ \A i, j \in DOMAIN scoreData.chordPositions :
        i < j => scoreData.chordPositions[i].startQ < scoreData.chordPositions[j].startQ
  /\ pc \in {"index", "indexed"} =>
        Len(scoreData.chordPositions)
          = Cardinality({k \in 1..(loopVars.i - 1) : doc.timemap[k].on # <<>>})
  /\ pc = "indexed" =>
        /\ loopVars.i = Len(doc.timemap) + 1
        /\ Len(scoreData.chordPositions) = scoreData.numChordPositions

\* a finished index of a timemap with an entry where nothing starts between
\* two entries where something does
C1_Witness ==
  /\ pc = "indexed"
  /\ Len(scoreData.chordPositions) = 2
  /\ \E k \in 1..(Len(doc.timemap) - 1) :
        /\ doc.timemap[k].on = <<>>
        /\ \E a \in 1..(k - 1) : doc.timemap[a].on # <<>>
        /\ \E b \in (k + 1)..Len(doc.timemap) : doc.timemap[b].on # <<>>

------------------------------------------------------------------------------
(* Expansion claims.  The sections that enter the expansion are those      *)
(* given to load(), or the default section over the whole score.           *)

\* _parseAndAnnotateMei has returned
Parsed ==
  \/ pc \in {"loadMidi", "loaded", "aborted"}
  \/ pc = "threw" /\ midiLog.classified # <<>>

SectionsIn ==
  IF inputData.sections = <<>>
  THEN << Section("unknown", "unknown", FALSE,
                  << ChordPositionRange(0, Len(scoreData.chordPositions), doc.staffNumbers) >>) >>
  ELSE inputData.sections

\* the existing chord positions from..to-1 of a range, in ascending order,
\* each with the section id and the staves of the range
RangeSpan(sectionId, range, from, to) ==
  [k \in 1..(Min(to, Len(scoreData.chordPositions)) - from) |->
     [ chordPosition |-> from + k - 1,
       sectionId |-> sectionId,
       staffNumbers |-> IF range.staffNumbers = NullStaffNumbers
                        THEN doc.staffNumbers ELSE range.staffNumbers ]]

RECURSIVE PlaybackOrder(_, _, _, _)
PlaybackOrder(sections, si, ri, endOfScore) ==
  IF si > Len(sections) THEN <<>>
  ELSE IF ri > Len(sections[si].chordPositionRanges) THEN PlaybackOrder(sections, si + 1, 1, endOfScore)
  ELSE RangeSpan(sections[si].sectionId, sections[si].chordPositionRanges[ri],
                 sections[si].chordPositionRanges[ri].start,
                 IF sections[si].chordPositionRanges[ri].end = 0
                 THEN endOfScore ELSE sections[si].chordPositionRanges[ri].end)
       \o PlaybackOrder(sections, si, ri + 1, endOfScore)

ExpandedView ==
  [e \in DOMAIN scoreData.expandedChordPositions |->
     [ chordPosition |-> scoreData.expandedChordPositions[e].chordPosition,
       sectionId |-> scoreData.expandedChordPositions[e].sectionId,
       staffNumbers |-> scoreData.expandedChordPositions[e].staffNumbers ]]

C3_SingleSectionIdentity ==
  ( /\ Parsed
    /\ Len(SectionsIn) = 1
    /\ Len(SectionsIn[1].chordPositionRanges) = 1
    /\ SectionsIn[1].chordPositionRanges[1].start = 0
    /\ SectionsIn[1].chordPositionRanges[1].end = Len(scoreData.chordPositions) )
  => /\ Len(scoreData.expandedChordPositions) = Len(scoreData.chordPositions)
     /\ \A e \in DOMAIN scoreData.expandedChordPositions :
           scoreData.expandedChordPositions[e].chordPosition = e - 1

\* a score of four chord positions loaded without sections
C3_Witness ==
  /\ pc = "loaded"
  /\ inputData.sections = <<>>
  /\ Len(scoreData.chordPositions) = 4
  /\ Len(scoreData.expandedChordPositions) = 4

------------------------------------------------------------------------------
(* _buildPartsFromTemplate.  A template string is the sequence of its      *)
(* characters.                                                             *)

MaxTemplateLen == 4

\* whether pat occurs in str at index i
MatchesAt(str, pat, i) ==
  /\ i + Len(pat) - 1 <= Len(str)
  /\ \A k \in 1..Len(pat) : str[i + k - 1] = pat[k]

\* String.prototype.replaceAll, from index i on (pat is not empty)
RECURSIVE ReplaceAllFrom(_, _, _, _)
ReplaceAllFrom(str, pat, rep, i) ==
  IF i > Len(str) THEN <<>>
  ELSE IF MatchesAt(str, pat, i) THEN rep \o ReplaceAllFrom(str, pat, rep, i + Len(pat))
  ELSE <<str[i]>> \o ReplaceAllFrom(str, pat, rep, i + 1)

replaceAll(str, pat, rep) == ReplaceAllFrom(str, pat, rep, 1)

\* the replacements without those that put the voices on two staves
TemplateWordsOnOneStaff ==
  << << <<"M","e","l","o","d","y">>, <<"M","C">> >>,
     << <<"S","o","l","o">>, <<"M","C">> >>,
     << <<"U","n","i","s","o","n">>, <<"M","C">> >>,
     << <<"#",";">>, <<";">> >> >>

\* the replacements of lines 2947-2964, in order
TemplateWords ==
  << << <<"M","e","l","o","d","y">>, <<"M","C">> >>,
     << <<"S","o","p","r","a","n","o">>, <<"S">> >>,
     << <<"A","l","t","o">>, <<"A">> >>,
     << <<"T","e","n","o","r">>, <<"T">> >>,
     << <<"B","a","s","s">>, <<"B">> >>,
     << <<"D","e","s","c","a","n","t">>, <<"D">> >>,
     << <<"O","b","b","l","i","g","a","t","o">>, <<"O">> >>,
     << <<"I","n","s","t","r","u","m","e","n","t","a","l">>, <<"I">> >>,
     << <<"A","c","c","o","m","p","a","n","i","m","e","n","t">>, <<"C">> >>,
     << <<"S","o","l","o">>, <<"M","C">> >>,
     << <<"U","n","i","s","o","n">>, <<"M","C">> >>,
     << <<"T","w","o","-","P","a","r","t">>, <<"P","+","P">> >>,
     << <<"D","u","e","t">>, <<"P","P">> >>,
     << <<"S","A","T","B">>, <<"S","A","+","T","B">> >>,
     << <<"S","S","A","A">>, <<"S","S","+","A","A">> >>,
     << <<"A","A","T","T">>, <<"A","A","+","T","T">> >>,
     << <<"T","T","B","B">>, <<"T","T","+","B","B">> >>,
     << <<"#",";">>, <<";">> >> >>

RECURSIVE ReplaceWordsFrom(_, _)
ReplaceWordsFrom(str, w) ==
  IF w > Len(TemplateWords) THEN str
  ELSE CHOOSE r \in { ReplaceWordsFrom(replaced, w + 1) :
                       replaced \in {replaceAll(str, TemplateWords[w][1], TemplateWords[w][2])} }
         : TRUE

\* the padding: one pad character per staff, joined by "+"
RECURSIVE Padding(_, _)
Padding(numStaves, padChar) ==
  IF numStaves = 0 THEN <<>>
  ELSE IF numStaves = 1 THEN <<padChar>>
  ELSE <<padChar, "+">> \o Padding(numStaves - 1, padChar)

\* lines 2945-2965
normalizedPartsTemplate(partsTemplate, padding) ==
  ReplaceWordsFrom(
    SelectSeq(IF partsTemplate = <<>> THEN padding ELSE partsTemplate, LAMBDA c : c # " "), 1)

\* the index of the first c in str, 0 when there is none
FirstIndexOf(str, c) ==
  IF \E i \in DOMAIN str : str[i] = c
  THEN CHOOSE i \in DOMAIN str : str[i] = c /\ \A j \in 1..(i - 1) : str[j] # c
  ELSE 0

\* String.prototype.split with a one-character separator
RECURSIVE split(_, _)
split(str, sep) ==
  IF FirstIndexOf(str, sep) = 0 THEN <<str>>
  ELSE <<SubSeq(str, 1, FirstIndexOf(str, sep) - 1)>>
       \o split(SubSeq(str, FirstIndexOf(str, sep) + 1, Len(str)), sep)

DigitValue(c) ==
  CASE c = "0" -> 0 [] c = "1" -> 1 [] c = "2" -> 2 [] c = "3" -> 3 [] c = "4" -> 4
    [] c = "5" -> 5 [] c = "6" -> 6 [] c = "7" -> 7 [] c = "8" -> 8 [] c = "9" -> 9
    [] OTHER -> Null

\* parseInt: the number written by the leading digits; Null stands for NaN
RECURSIVE ParseIntFrom(_, _, _)
ParseIntFrom(str, i, value) ==
  IF i > Len(str) \/ DigitValue(str[i]) = Null THEN value
  ELSE ParseIntFrom(str, i + 1, 10 * Num(value) + DigitValue(str[i]))

parseInt(str) == ParseIntFrom(str, 1, Null)

\* lines 2968-2977: every template gets its chord position in front
WithChordPosition(template) ==
  IF Includes(template, ":") THEN template ELSE <<"0", ":">> \o template

partsTemplates(normalized) ==
  [vm \in DOMAIN split(normalized, ";") |-> WithChordPosition(split(normalized, ";")[vm])]

\* charToPartId; "undefined" for a character that is not in the table
charToPartId(c) ==
  CASE c = "M" -> "melody" [] c = "S" -> "soprano" [] c = "A" -> "alto"
    [] c = "T" -> "tenor" [] c = "B" -> "bass" [] c = "P" -> "part"
    [] c = "D" -> "descant" [] c = "O" -> "obbligato" [] c = "I" -> "instrumental"
    [] c = "C" -> "accompaniment" [] OTHER -> "undefined"

likelyMelodyChars == <<"M", "S", "P">>
polyphonicChars == <<"I", "C">>
vocalChars == <<"M", "S", "A", "T", "B", "P", "D">>

\* String.prototype.includes
IsSubstring(str, sub) == \E i \in 1..(Len(str) + 1) : MatchesAt(str, sub, i)

\* the number of characters of str that are the string char
CountOf(str, char) ==
  IF Len(char) = 1 THEN Cardinality({i \in DOMAIN str : str[i] = char[1]}) ELSE 0

\* a part number that ignores the digit written after the character
PartNumberByCount(char, previousChars, splitPartChars) ==
  IF IsSubstring(splitPartChars, char) THEN CountOf(previousChars, char) + 1
  ELSE Null

\* lines 2994-3000: the number n of "Soprano 1, Soprano 2", Null when there is none
PartNumber(char, previousChars, splitPartChars) ==
  IF Len(char) > 1 /\ DigitValue(char[2]) # Null THEN DigitValue(char[2])
  ELSE IF IsSubstring(splitPartChars, char) THEN CountOf(previousChars, char) + 1
  ELSE Null

PartBase(char) == IF char = <<>> THEN "undefined" ELSE charToPartId(char[1])

\* getPartId; the result "undefined" is the value undefined
getPartId(char, previousChars, splitPartChars) ==
  IF PartNumber(char, previousChars, splitPartChars) = Null THEN PartBase(char)
  ELSE PartBase(char) \o "-" \o ToString(PartNumber(char, previousChars, splitPartChars))

Capitalized(word) ==
  CASE word = "melody" -> "Melody" [] word = "soprano" -> "Soprano" [] word = "alto" -> "Alto"
    [] word = "tenor" -> "Tenor" [] word = "bass" -> "Bass" [] word = "part" -> "Part"
    [] word = "descant" -> "Descant" [] word = "obbligato" -> "Obbligato"
    [] word = "instrumental" -> "Instrumental" [] word = "accompaniment" -> "Accompaniment"
    [] OTHER -> "Undefined"

\* getPartName of the partId made of a base word and a number
getPartName(base, n) ==
  IF n = Null THEN Capitalized(base) ELSE Capitalized(base) \o " " \o ToString(n)

\* lines 3018-3024 for one template: chars is the template after its last
\* ":" and before its first "#", without "+"
SplitCharsOf(chars, splitPartChars, i) ==
  IF /\ CountOf(chars, <<chars[i]>>) > 1
     /\ ~Includes(splitPartChars, chars[i])
     /\ ~Includes(polyphonicChars, chars[i])
  THEN Append(splitPartChars, chars[i]) ELSE splitPartChars

RECURSIVE SplitCharsFrom(_, _, _)
SplitCharsFrom(chars, splitPartChars, i) ==
  IF i > Len(chars) THEN splitPartChars
  ELSE SplitCharsFrom(chars, SplitCharsOf(chars, splitPartChars, i), i + 1)

TemplateChars(template) ==
  SelectSeq(split(split(template, ":")[Len(split(template, ":"))], "#")[1],
            LAMBDA c : c # "+")

\* lines 3016-3025
RECURSIVE splitPartCharsFrom(_, _, _)
splitPartCharsFrom(templates, vm, splitPartChars) ==
  IF vm > Len(templates) THEN splitPartChars
  ELSE splitPartCharsFrom(templates, vm + 1,
         SplitCharsFrom(TemplateChars(templates[vm]), splitPartChars, 1))

\* lines 3034-3040: the melody character of a template; <<"undefined">>
\* stands for undefined (chars[0] of an empty string)
MelodyChar(charsAndMelody) ==
  IF Includes(charsAndMelody, "#") THEN split(charsAndMelody, "#")[2]
  ELSE IF \E i \in DOMAIN charsAndMelody : Includes(likelyMelodyChars, charsAndMelody[i])
  THEN <<charsAndMelody[CHOOSE i \in DOMAIN charsAndMelody :
            /\ Includes(likelyMelodyChars, charsAndMelody[i])
            /\ \A j \in 1..(i - 1) : ~Includes(likelyMelodyChars, charsAndMelody[j])]>>
  ELSE IF charsAndMelody # <<>> THEN <<charsAndMelody[1]>>
  ELSE <<"undefined">>

TemplateCharsBeforeMelody(charsAndMelody) ==
  IF Includes(charsAndMelody, "#") THEN split(charsAndMelody, "#")[1] ELSE charsAndMelody

\* the index of the part with the id in partInfoByPartId, 0 when absent
PartIndex(parts, partId) ==
  IF \E i \in DOMAIN parts : parts[i].partId = partId
  THEN CHOOSE i \in DOMAIN parts : parts[i].partId = partId
  ELSE 0

\* lines 3057-3065
NewPartInfo(partId, name, char) ==
  [ partId |-> partId,
    name |-> name,
    isVocal |-> Includes(vocalChars, char),
    placement |-> IF Includes(polyphonicChars, char) THEN "full" ELSE "auto",
    chordPositionRefs |-> <<>> ]

\* the keys of chordPositionRefs in the order of an object's keys: the
\* integers ascending, then NaN
RefBefore(a, b) == a # Null /\ (b = Null \/ a < b)

RECURSIVE InsertRef(_, _)
InsertRef(refs, ref) ==
  IF refs = <<>> THEN <<ref>>
  ELSE IF RefBefore(ref.chordPosition, Head(refs).chordPosition) THEN <<ref>> \o refs
  ELSE <<Head(refs)>> \o InsertRef(Tail(refs), ref)

\* lines 3066-3073: the reference of the range is created when missing, and
\* the staff number is pushed onto it
PushStaffNumber(part, chordPosition, isMelody, staffNumber) ==
  IF \E i \in DOMAIN part.chordPositionRefs :
       part.chordPositionRefs[i].chordPosition = chordPosition
  THEN [part EXCEPT !.chordPositionRefs =
          [i \in DOMAIN @ |->
             IF @[i].chordPosition = chordPosition
             THEN [@[i] EXCEPT !.staffNumbers = Append(@, staffNumber)]
             ELSE @[i]]]
  ELSE [part EXCEPT !.chordPositionRefs =
          InsertRef(@, [ chordPosition |-> chordPosition, isMelody |-> isMelody,
                         staffNumbers |-> <<staffNumber>> ])]

\* lines 3055-3073 for a character that is not "+"; getPartName throws on
\* the partId undefined
AddPartChar(acc, char, partId, name, chordPosition, melodyPartId) ==
  IF PartIndex(acc.parts, partId) = 0 /\ partId = "undefined"
  THEN [acc EXCEPT !.threw = TRUE]
  ELSE IF PartIndex(acc.parts, partId) = 0
  THEN [acc EXCEPT !.parts =
          Append(@, PushStaffNumber(NewPartInfo(partId, name, char), chordPosition,
                                    partId = melodyPartId, acc.staffNumber))]
  ELSE [acc EXCEPT !.parts[PartIndex(acc.parts, partId)] =
          PushStaffNumber(@, chordPosition, partId = melodyPartId, acc.staffNumber)]

\* one iteration of "for (let cr = 0; cr < chars.length; cr++)"
PartCharStep(acc, chars, cr, staffNumbers, splitPartChars, chordPosition, melodyPartId) ==
  IF chars[cr] = "+"
  THEN [acc EXCEPT !.staffNumber = @ + 1,
                   !.stop = ~Includes(staffNumbers, acc.staffNumber + 1)]
  ELSE AddPartChar(acc, chars[cr],
                   getPartId(<<chars[cr]>>, SubSeq(chars, 1, cr - 1), splitPartChars),
                   getPartName(PartBase(<<chars[cr]>>),
                               PartNumber(<<chars[cr]>>, SubSeq(chars, 1, cr - 1), splitPartChars)),
                   chordPosition, melodyPartId)

RECURSIVE PartCharsFrom(_, _, _, _, _, _, _)
PartCharsFrom(acc, chars, cr, staffNumbers, splitPartChars, chordPosition, melodyPartId) ==
  IF cr > Len(chars) \/ acc.stop \/ acc.threw THEN acc
  ELSE CHOOSE r \in
         { PartCharsFrom(next, chars, cr + 1, staffNumbers, splitPartChars,
                         chordPosition, melodyPartId) :
             next \in { PartCharStep(acc, chars, cr, staffNumbers, splitPartChars,
                                     chordPosition, melodyPartId) } } : TRUE

\* lines 3030-3074 for one template "chordPosition:chars#melody"; getPartId
\* throws on a melody character that is undefined
PartsOfTemplate(acc, template, staffNumbers, padding, splitPartChars) ==
  IF MelodyChar(split(template, ":")[2]) = <<"undefined">>
  THEN [acc EXCEPT !.threw = TRUE]
  ELSE PartCharsFrom([acc EXCEPT !.staffNumber = 1, !.stop = FALSE],
                     TemplateCharsBeforeMelody(split(template, ":")[2]) \o <<"+">> \o padding,
                     1, staffNumbers, splitPartChars,
                     parseInt(split(template, ":")[1]),
                     getPartId(MelodyChar(split(template, ":")[2]), <<>>, splitPartChars))

RECURSIVE PartsOfTemplatesFrom(_, _, _, _, _, _)
PartsOfTemplatesFrom(acc, templates, vm, staffNumbers, padding, splitPartChars) ==
  IF vm > Len(templates) \/ acc.threw THEN acc
  ELSE CHOOSE r \in
         { PartsOfTemplatesFrom(next, templates, vm + 1, staffNumbers, padding, splitPartChars) :
             next \in { PartsOfTemplate(acc, templates[vm], staffNumbers, padding,
                                        splitPartChars) } } : TRUE

\* lines 3077-3088: the parts in the order of their creation, with the
\* accompaniment moved to the end
PartsList(parts) ==
  SelectSeq(parts, LAMBDA part : part.partId # "accompaniment")
    \o SelectSeq(parts, LAMBDA part : part.partId = "accompaniment")

BuildPartsOf(templates, staffNumbers, padding) ==
  CHOOSE r \in
    { [parts |-> PartsList(acc.parts), threw |-> acc.threw] :
        acc \in { PartsOfTemplatesFrom(
                    [parts |-> <<>>, staffNumber |-> 1, stop |-> FALSE, threw |-> FALSE],
                    templates, 1, staffNumbers, padding,
                    splitPartCharsFrom(templates, 1, <<>>)) } } : TRUE

\* _buildPartsFromTemplate: [parts, threw]
buildPartsFromTemplate(partsTemplate, staffNumbers, numChordPositions, hasLyrics) ==
  CHOOSE r \in
    { BuildPartsOf(templates, staffNumbers,
                   Padding(Len(staffNumbers), IF hasLyrics THEN "C" ELSE "I")) :
        templates \in
          { partsTemplates(
              normalizedPartsTemplate(partsTemplate,
                 Padding(Len(staffNumbers), IF hasLyrics THEN "C" ELSE "I"))) } } : TRUE

\* _normalizeParts: [parts, threw]
normalizeParts(sd) ==
  IF sd.parts # <<>> THEN [parts |-> sd.parts, threw |-> FALSE]
  ELSE IF sd.partsTemplate # <<>>
  THEN buildPartsFromTemplate(sd.partsTemplate, sd.staffNumbers, sd.numChordPositions,
                              sd.hasLyrics)
  ELSE [parts |-> DefaultParts(sd.staffNumbers), threw |-> FALSE]

------------------------------------------------------------------------------
(* Specification SpecParts: _normalizeParts on a score without parts, for  *)
(* the parts templates of the documentation and for every short string     *)
(* over the characters below.                                              *)

TemplateAlphabet == {"S", "T", "+", "#", "X", ";"}

DocumentedTemplates ==
  { <<"S","A","T","B">>,
    <<"T","T","+","B","B","#","T","2">>,
    <<"S","A","+","T","B">>,
    <<"M","e","l","o","d","y">>,
    <<"U","n","i","s","o","n">>,
    <<"T","w","o","-","P","a","r","t">>,
    <<"0",":","U","n","i","s","o","n",";"," ","3","9",":","S","A","+","T","B">>,
    <<"0",":","S","A","T","B",";","2",":","S","+","T","#","T">> }

PartsTemplateInputs ==
  {<<>>, <<" ">>}
  \cup DocumentedTemplates
  \cup UNION { [1..n -> TemplateAlphabet] : n \in 1..MaxTemplateLen }

StaffNumberLists == {<<1>>, <<1, 2>>, <<1, 2, 3>>}

InitParts ==
  /\ pc = "normalizeParts"
  /\ doc = BuildScoreDoc(<<>>)
  /\ inputData \in [ partsTemplate : PartsTemplateInputs,
                     staffNumbers : StaffNumberLists,
                     hasLyrics : BOOLEAN ]
  /\ scoreData = [ parts |-> <<>>,
                   partsTemplate |-> inputData.partsTemplate,
                   staffNumbers |-> inputData.staffNumbers,
                   numChordPositions |-> 4,
                   hasLyrics |-> inputData.hasLyrics ]
  /\ loopVars = InitLoopVars
  /\ midiLog = NoLog
  /\ currentOptions = defaultOptions

\* _normalizeParts (line 902 of _parseAndAnnotateMei)
NormalizePartsStep ==
  /\ pc = "normalizeParts"
  /\ \E r \in {normalizeParts(scoreData)} :
       /\ scoreData' = [scoreData EXCEPT !.parts = r.parts]
       /\ pc' = IF r.threw THEN "threw" ELSE "partsReady"
  /\ UNCHANGED <<doc, inputData, loopVars, midiLog, currentOptions>>

\* _normalizeParts again, on the parts it has produced
NormalizePartsAgain ==
  /\ pc = "partsReady"
  /\ \E r \in {normalizeParts(scoreData)} :
       /\ scoreData' = [scoreData EXCEPT !.parts = r.parts]
       /\ pc' = IF r.threw THEN "threw" ELSE "partsNormalized"
  /\ UNCHANGED <<doc, inputData, loopVars, midiLog, currentOptions>>

NextParts == NormalizePartsStep \/ NormalizePartsAgain

SpecParts == InitParts /\ [][NextParts]_vars

------------------------------------------------------------------------------
(* Lyrics: _extractLyricStanzas and alignSyllablesToLyrics.  A text is a   *)
(* sequence of characters; a bracketed stanza label of the lyrics          *)
(* ("[Verse 1]") is one element of the sequence.  A text that is null or   *)
(* empty is <<>>: the code treats the two alike (lines 3409, 3497).        *)

MaxLyricsLen == 3

\* line 3499: the window in which a syllable is looked for
MatchWindow == 20

\* \p{P} and \p{N} of lines 3432 and 3477
IsPunctuation(c) == c \in {",", "-", "1"}

IsWhitespace(c) == c \in {" ", "\n"}

toLowerCase(c) == IF c = "A" THEN "a" ELSE c

StanzaLabels == {"[Verse 1]", "[Chorus]"}

\* String.prototype.trim
RECURSIVE trim(_)
trim(text) ==
  IF text = <<>> THEN <<>>
  ELSE IF IsWhitespace(text[1]) THEN trim(Tail(text))
  ELSE IF IsWhitespace(text[Len(text)]) THEN trim(SubSeq(text, 1, Len(text) - 1))
  ELSE text

\* replace(/\s+/g, ' ')
RECURSIVE CollapseWhitespaceFrom(_, _)
CollapseWhitespaceFrom(text, i) ==
  IF i > Len(text) THEN <<>>
  ELSE IF ~IsWhitespace(text[i]) THEN <<text[i]>> \o CollapseWhitespaceFrom(text, i + 1)
  ELSE IF i > 1 /\ IsWhitespace(text[i - 1]) THEN CollapseWhitespaceFrom(text, i + 1)
  ELSE <<" ">> \o CollapseWhitespaceFrom(text, i + 1)

\* lines 3430-3433: normalize
normalize(text) ==
  [i \in DOMAIN trim(CollapseWhitespaceFrom(SelectSeq(text, LAMBDA c : ~IsPunctuation(c)), 1)) |->
     toLowerCase(trim(CollapseWhitespaceFrom(SelectSeq(text, LAMBDA c : ~IsPunctuation(c)), 1))[i])]

\* the length of the longest common substring of str1 and str2 (lines 3437-3447)
LongestCommon(str1, str2) ==
  CHOOSE n \in 0..Min(Len(str1), Len(str2)) :
    /\ n = 0 \/ \E i \in 1..(Len(str1) - n + 1), j \in 1..(Len(str2) - n + 1) :
                  \A k \in 0..(n - 1) : str1[i + k] = str2[j + k]
    /\ \A m \in (n + 1)..Min(Len(str1), Len(str2)) :
          ~\E i \in 1..(Len(str1) - m + 1), j \in 1..(Len(str2) - m + 1) :
              \A k \in 0..(m - 1) : str1[i + k] = str2[j + k]

\* lines 3436-3450: similarity, as the fraction num / den (0 / 1 for two
\* empty strings)
similarity(str1, str2) ==
  IF Len(str1) + Len(str2) = 0 THEN [num |-> 0, den |-> 1]
  ELSE [num |-> 2 * LongestCommon(str1, str2), den |-> Len(str1) + Len(str2)]

ScoreGreater(a, b) == a.num * b.den > b.num * a.den

\* String.prototype.substring(from, to), positions counted from 0
substring(text, from, to) ==
  SubSeq(text, Min(from, Min(to, Len(text))) + 1,
         IF from > to THEN Min(from, Len(text)) ELSE Min(to, Len(text)))

\* String.prototype.indexOf(pat, pos), positions counted from 0; -1 when
\* pat does not occur
indexOf(text, pat, pos) ==
  IF \E i \in pos..Len(text) : MatchesAt(text, pat, i + 1)
  THEN CHOOSE i \in pos..Len(text) :
         MatchesAt(text, pat, i + 1) /\ \A j \in pos..(i - 1) : ~MatchesAt(text, pat, j + 1)
  ELSE -1


\* lines 3457-3470: the stanza of a label
StanzaOfLabel(label) ==
  [ name |-> IF label = "[Verse 1]" THEN "Verse 1" ELSE "Chorus",
    type |-> IF label = "[Verse 1]" THEN "verse" ELSE "chorus",
    marker |-> IF label = "[Verse 1]" THEN "1" ELSE "null",
    annotatedLyrics |-> <<>>,
    chordPositionRanges |-> <<>>,
    expandedChordPositions |-> <<>> ]

\* /\[.*?\]\n/: a label with the newline after it
IsLabelAt(text, i) == i < Len(text) /\ text[i] \in StanzaLabels /\ text[i + 1] = "\n"

\* lines 3457-3470: the stanzas of the labels of the text, in order
RECURSIVE StanzasFrom(_, _)
StanzasFrom(text, i) ==
  IF i > Len(text) THEN <<>>
  ELSE IF IsLabelAt(text, i) THEN <<StanzaOfLabel(text[i])>> \o StanzasFrom(text, i + 2)
  ELSE StanzasFrom(text, i + 1)

\* lines 3457-3470: the text without its labels
RECURSIVE WithoutLabelsFrom(_, _)
WithoutLabelsFrom(text, i) ==
  IF i > Len(text) THEN <<>>
  ELSE IF IsLabelAt(text, i) THEN WithoutLabelsFrom(text, i + 2)
  ELSE <<text[i]>> \o WithoutLabelsFrom(text, i + 1)

\* lines 3473-3487: normChars with posMap, as a sequence of [char, pos];
\* i and pos count from 0
RECURSIVE NormCharsFrom(_, _, _)
NormCharsFrom(expandedLyrics, i, acc) ==
  IF i >= Len(expandedLyrics) THEN acc
  ELSE IF IsPunctuation(expandedLyrics[i + 1]) THEN NormCharsFrom(expandedLyrics, i + 1, acc)
  ELSE IF ~IsWhitespace(expandedLyrics[i + 1])
  THEN NormCharsFrom(expandedLyrics, i + 1,
                     Append(acc, [char |-> toLowerCase(expandedLyrics[i + 1]), pos |-> i]))
  ELSE IF acc = <<>> \/ acc[Len(acc)].char # " "
  THEN NormCharsFrom(expandedLyrics, i + 1, Append(acc, [char |-> " ", pos |-> i]))
  ELSE NormCharsFrom(expandedLyrics, i + 1, acc)

NormText(norm) == [i \in DOMAIN norm |-> norm[i].char]

\* line 3513: the score of the text at i against the syllable
FuzzyScore(normText, normSylText, i) ==
  similarity(normSylText, substring(normText, i, i + Len(normSylText)))

\* lines 3509-3518: the first position of the window with the best score,
\* pos when no position scores above 0
BestPos(normText, normSylText, pos, windowEnd) ==
  IF \E i \in pos..(windowEnd - 1) : FuzzyScore(normText, normSylText, i).num > 0
  THEN CHOOSE i \in pos..(windowEnd - 1) :
         /\ \A j \in pos..(windowEnd - 1) :
               ~ScoreGreater(FuzzyScore(normText, normSylText, j),
                             FuzzyScore(normText, normSylText, i))
         /\ \A j \in pos..(i - 1) :
               ScoreGreater(FuzzyScore(normText, normSylText, i),
                            FuzzyScore(normText, normSylText, j))
  ELSE pos

\* bestScore > 0.6
GoodScore(score) == 10 * score.num > 6 * score.den

\* lines 3499-3524: the position the syllable is matched at, -1 when it is
\* not matched
FuzzyMatchPos(normText, normSylText, bestPos) ==
  IF GoodScore(FuzzyScore(normText, normSylText, bestPos)) THEN bestPos ELSE -1

MatchPosIn(normText, normSylText, pos, windowEnd, exact) ==
  IF exact # -1 /\ exact < windowEnd THEN exact
  ELSE IF pos >= windowEnd THEN -1
  ELSE FuzzyMatchPos(normText, normSylText, BestPos(normText, normSylText, pos, windowEnd))

MatchPos(normText, normSylText, pos) ==
  MatchPosIn(normText, normSylText, pos, Min(pos + MatchWindow, Len(normText)),
             indexOf(normText, normSylText, pos))

\* (textBetween.match(/\n\n/g) || []).length
RECURSIVE CountBreaksFrom(_, _)
CountBreaksFrom(text, i) ==
  IF i >= Len(text) THEN 0
  ELSE IF text[i] = "\n" /\ text[i + 1] = "\n" THEN 1 + CountBreaksFrom(text, i + 2)
  ELSE CountBreaksFrom(text, i + 1)

\* lines 3528-3532: posMap[pos] || 0 and posMap[matchPos]
StanzaBreaks(expandedLyrics, norm, pos, matchPos) ==
  CountBreaksFrom(substring(expandedLyrics,
                            IF pos < Len(norm) THEN norm[pos + 1].pos ELSE 0,
                            norm[matchPos + 1].pos), 1)


\* lines 3538-3552: the chord positions of a matched syllable, from the
\* k-th on, added to the ranges of the stanza
RECURSIVE AddChordPositionsFrom(_, _, _, _)
AddChordPositionsFrom(ranges, syllable, k, staffNumbers) ==
  IF k > Len(syllable.chordPositions) THEN ranges
  ELSE AddChordPositionsFrom(
         IF k = 1 \/ syllable.chordPositions[k - 1] + 1 # syllable.chordPositions[k]
         THEN Append(ranges, [ start |-> syllable.chordPositions[k],
                               end |-> syllable.chordPositions[k] + 1,
                               lyricLineIds |-> syllable.lyricLineIds,
                               staffNumbers |-> staffNumbers ])
         ELSE [ranges EXCEPT ![Len(ranges)].end = syllable.chordPositions[k] + 1],
         syllable, k + 1, staffNumbers)

\* lines 3527-3557: a syllable matched at matchPos, in the stanza
\* stanzaIndex; stanzas[-1] is undefined when the text has no label
MatchedSyllable(acc, syllable, normSylText, matchPos, stanzaIndex, staffNumbers) ==
  IF stanzaIndex < 0 THEN [acc EXCEPT !.threw = TRUE]
  ELSE [acc EXCEPT
          !.pos = matchPos + Len(normSylText),
          !.currentStanzaIndex = stanzaIndex,
          !.stanzas[stanzaIndex + 1].chordPositionRanges =
             AddChordPositionsFrom(@, syllable, 1, staffNumbers),
          !.stanzas[stanzaIndex + 1].expandedChordPositions =
             @ \o syllable.expandedChordPositions]

SyllableAt(acc, syllable, expandedLyrics, norm, staffNumbers, matchPos) ==
  IF matchPos = -1 THEN acc
  ELSE MatchedSyllable(acc, syllable, normalize(syllable.text), matchPos,
                       Min(acc.currentStanzaIndex
                             + StanzaBreaks(expandedLyrics, norm, acc.pos, matchPos),
                           Len(acc.stanzas) - 1),
                       staffNumbers)

\* lines 3495-3557: one iteration of "for (const syllable of syllables)"
SyllableStep(acc, syllable, expandedLyrics, norm, staffNumbers) ==
  IF acc.threw \/ normalize(syllable.text) = <<>> THEN acc
  ELSE CHOOSE r \in
         { SyllableAt(acc, syllable, expandedLyrics, norm, staffNumbers, matchPos) :
             matchPos \in {MatchPos(NormText(norm), normalize(syllable.text), acc.pos)} } : TRUE

RECURSIVE SyllablesFrom(_, _, _, _, _, _)
SyllablesFrom(acc, syllables, s, expandedLyrics, norm, staffNumbers) ==
  IF s > Len(syllables) THEN acc
  ELSE CHOOSE r \in
         { SyllablesFrom(next, syllables, s + 1, expandedLyrics, norm, staffNumbers) :
             next \in {SyllableStep(acc, syllables[s], expandedLyrics, norm, staffNumbers)} } : TRUE

\* lines 3560-3575: consolidateChordPositionRanges
RECURSIVE consolidateChordPositionRanges(_, _, _)
consolidateChordPositionRanges(chordPositionRanges, r, new) ==
  IF r > Len(chordPositionRanges) THEN new
  ELSE consolidateChordPositionRanges(chordPositionRanges, r + 1,
         IF /\ new # <<>>
            /\ new[Len(new)].end = chordPositionRanges[r].start
            /\ new[Len(new)].staffNumbers = chordPositionRanges[r].staffNumbers
            /\ new[Len(new)].lyricLineIds = chordPositionRanges[r].lyricLineIds
         THEN [new EXCEPT ![Len(new)].end = chordPositionRanges[r].end]
         ELSE Append(new, chordPositionRanges[r]))

\* String.prototype.split('\n\n')
RECURSIVE SplitBreaksFrom(_, _, _)
SplitBreaksFrom(text, i, current) ==
  IF i > Len(text) THEN <<current>>
  ELSE IF i < Len(text) /\ text[i] = "\n" /\ text[i + 1] = "\n"
  THEN <<current>> \o SplitBreaksFrom(text, i + 2, <<>>)
  ELSE SplitBreaksFrom(text, i + 1, Append(current, text[i]))

\* lines 3577-3580 and 3588-3591 for one stanza; the span elements put
\* into the text (lines 3535, 3583-3586) are left out of annotatedLyrics
FinishedStanza(stanza, stanzaText) ==
  [stanza EXCEPT
     !.chordPositionRanges = consolidateChordPositionRanges(@, 1, <<>>),
     !.expandedChordPositions =
        IF @ = <<>> THEN <<Null, Null>> ELSE <<@[1], @[Len(@)] + 1>>,
     !.annotatedLyrics = trim(stanzaText)]

\* stanzasText[sz] is undefined when the text has fewer blocks than labels
FinishedStanzas(acc, stanzasText) ==
  IF acc.threw \/ Len(stanzasText) < Len(acc.stanzas)
  THEN [stanzas |-> acc.stanzas, threw |-> TRUE]
  ELSE [ stanzas |-> [sz \in DOMAIN acc.stanzas |->
                         FinishedStanza(acc.stanzas[sz], stanzasText[sz])],
         threw |-> FALSE ]

AlignedTo(expandedLyrics, stanzas, syllables, staffNumbers) ==
  CHOOSE r \in
    { FinishedStanzas(acc, SplitBreaksFrom(expandedLyrics, 1, <<>>)) :
        acc \in { SyllablesFrom([ pos |-> 0, currentStanzaIndex |-> 0,
                                  stanzas |-> stanzas, threw |-> FALSE ],
                                syllables, 1, expandedLyrics,
                                NormCharsFrom(expandedLyrics, 0, <<>>), staffNumbers) } } : TRUE

\* lines 3428-3594: [stanzas, threw]
alignSyllablesToLyrics(expandedLyrics, syllables, staffNumbers) ==
  IF expandedLyrics = <<>> \/ syllables = <<>> THEN [stanzas |-> <<>>, threw |-> FALSE]
  ELSE AlignedTo(WithoutLabelsFrom(expandedLyrics, 1), StanzasFrom(expandedLyrics, 1),
                 syllables, staffNumbers)


\* line 1054: the lyric line of staff 1, line 1
LyricLineId == "1.1"

\* the verse element of the melody note of a chord position, if it has one
NoVerse == [has |-> FALSE, syl |-> <<>>]

Verse(syl) == [has |-> TRUE, syl |-> syl]

\* replace(/[\-\‑\s]+$/, '')
RECURSIVE StripTrailingHyphens(_)
StripTrailingHyphens(text) ==
  IF text # <<>> /\ (text[Len(text)] = "-" \/ IsWhitespace(text[Len(text)]))
  THEN StripTrailingHyphens(SubSeq(text, 1, Len(text) - 1))
  ELSE text

\* line 3409, for a verse element with one syl element
SyllableText(syl) == trim(StripTrailingHyphens(syl))

\* lines 3389-3421 for a range of chord positions with one lyric line: a
\* chord position without verse element goes with the syllable before it
RECURSIVE ExtractFrom(_, _, _, _)
ExtractFrom(verses, cp, ecpCounter, extracted) ==
  IF cp >= Len(verses) THEN extracted
  ELSE ExtractFrom(verses, cp + 1, ecpCounter + 1,
         IF verses[cp + 1].has
         THEN Append(extracted, [ text |-> SyllableText(verses[cp + 1].syl),
                                  chordPositions |-> <<cp>>,
                                  expandedChordPositions |-> <<ecpCounter>>,
                                  lyricLineIds |-> <<LyricLineId>> ])
         ELSE [extracted EXCEPT
                 ![Len(extracted)].chordPositions = Append(@, cp),
                 ![Len(extracted)].expandedChordPositions = Append(@, ecpCounter)])

\* _extractLyricStanzas on the range [0, numChordPositions], counting
\* expanded chord positions from ecpStart
extractLyricStanzas(d, sd, ecpStart) ==
  alignSyllablesToLyrics(
    sd.lyricsText,
    ExtractFrom(d.verses, 0, ecpStart,
                << [ text |-> <<>>, chordPositions |-> <<>>,
                     expandedChordPositions |-> <<>>, lyricLineIds |-> <<>> ] >>),
    sd.staffNumbers)

\* lines 3607-3614: the last measure does not end the song, or the first
\* measure has no lyrics
hasComplexSections(d) == d.right # "end" \/ ~d.firstMeasureHasVerse

\* generateSectionsFromLyricStanzas (lines 3223-3242)
generateSectionsFromLyricStanzas(lyricStanzas) ==
  [ k \in DOMAIN lyricStanzas |->
      [ sectionId |-> "section-" \o ToString(k - 1),
        type |-> lyricStanzas[k].type,
        name |-> lyricStanzas[k].name,
        marker |-> lyricStanzas[k].marker,
        placement |-> IF lyricStanzas[k].chordPositionRanges = <<>> THEN "below" ELSE "inline",
        pauseAfter |-> FALSE,
        chordPositionRanges |-> lyricStanzas[k].chordPositionRanges,
        annotatedLyrics |-> lyricStanzas[k].annotatedLyrics ] ]

\* _getIntroSectionFromChordPositions on one range
IntroSection(start, end, staffNumbers) ==
  [ sectionId |-> "introduction", type |-> "introduction", name |-> "Introduction",
    marker |-> "null", placement |-> "inline", pauseAfter |-> FALSE,
    chordPositionRanges |-> << [ start |-> start, end |-> end,
                                 staffNumbers |-> staffNumbers, lyricLineIds |-> <<>> ] >>,
    annotatedLyrics |-> <<>> ]

\* generateDefaultSection on the range [0, numChordPositions]; lyricLineIds
\* null is <<>>
DefaultLyricSection(sd) ==
  << [ sectionId |-> "unknown", type |-> "unknown", name |-> "Unknown",
       marker |-> "null", placement |-> "inline", pauseAfter |-> FALSE,
       chordPositionRanges |-> << [ start |-> 0, end |-> sd.numChordPositions,
                                    staffNumbers |-> sd.staffNumbers,
                                    lyricLineIds |-> <<>> ] >>,
       annotatedLyrics |-> <<>> ] >>

\* lines 3319-3331 and 3357-3359: the sections of the stanzas, after an
\* introduction for the chord positions before the first lyric;
\* lyricStanzas[0].chordPositionRanges[0] is undefined when nothing was
\* matched in the first stanza
SectionsOfStanzas(lyricStanzas, sd) ==
  IF lyricStanzas = <<>> THEN [sections |-> DefaultLyricSection(sd), threw |-> FALSE]
  ELSE IF lyricStanzas[1].chordPositionRanges = <<>> THEN [sections |-> <<>>, threw |-> TRUE]
  ELSE [ sections |->
           (IF lyricStanzas[1].chordPositionRanges[1].start # 0
            THEN << IntroSection(0, lyricStanzas[1].chordPositionRanges[1].start,
                                 sd.staffNumbers) >>
            ELSE <<>>) \o generateSectionsFromLyricStanzas(lyricStanzas),
         threw |-> FALSE ]

\* _normalizeSections for a score with one lyric line, complex sections,
\* no sections given to load(), no introduction brackets and no expansion
\* element: [sections, threw]
NormalizeLyricSections(d, sd) ==
  CHOOSE r \in
    { IF x.threw THEN [sections |-> <<>>, threw |-> TRUE]
      ELSE SectionsOfStanzas(x.stanzas, sd) :
        x \in {extractLyricStanzas(d, sd, 0)} } : TRUE


\* lines 1187-1219: the lyric syllables of a chord position for a range
LyricSyllablesAt(d, range, cp) ==
  IF /\ Includes(range.lyricLineIds, LyricLineId)
     /\ d.verses[cp + 1].has
     /\ trim(d.verses[cp + 1].syl) # <<>>
  THEN << trim(d.verses[cp + 1].syl) >>
  ELSE <<>>

\* lines 1182-1234: the expanded chord positions of a range, from cp on
RECURSIVE ExpandLyricRangeFrom(_, _, _, _)
ExpandLyricRangeFrom(d, sectionId, range, cp) ==
  IF cp >= range.end THEN <<>>
  ELSE (IF cp >= 0 /\ cp < Len(d.verses)
        THEN << [ chordPosition |-> cp,
                  sectionId |-> sectionId,
                  staffNumbers |-> range.staffNumbers,
                  lyricSyllables |-> LyricSyllablesAt(d, range, cp),
                  lyricIsSkipSymbol |-> FALSE ] >>
        ELSE <<>>) \o ExpandLyricRangeFrom(d, sectionId, range, cp + 1)

\* lines 1178-1259: the expanded chord positions of the sections, from
\* range ri of section si on
RECURSIVE ExpandLyricsFrom(_, _, _, _)
ExpandLyricsFrom(d, sections, si, ri) ==
  IF si > Len(sections) THEN <<>>
  ELSE IF ri > Len(sections[si].chordPositionRanges) THEN ExpandLyricsFrom(d, sections, si + 1, 1)
  ELSE ExpandLyricRangeFrom(d, sections[si].sectionId, sections[si].chordPositionRanges[ri],
                            sections[si].chordPositionRanges[ri].start)
       \o ExpandLyricsFrom(d, sections, si, ri + 1)

------------------------------------------------------------------------------
(* Loading a score with one lyric line together with lyrics as text *)

MaxVerses == 3

LyricChars == {"a", "b", "A", " ", ","}

\* the texts of at most n characters
RECURSIVE LyricBodies(_)
LyricBodies(n) ==
  IF n = 0 THEN {<<>>}
  ELSE LyricBodies(n - 1)
         \cup { Append(b, c) : b \in {x \in LyricBodies(n - 1) : Len(x) = n - 1}, c \in LyricChars }

\* one stanza, two stanzas, or a text without label
LyricsTexts ==
  { <<"[Verse 1]", "\n">> \o b : b \in LyricBodies(MaxLyricsLen) }
    \cup { <<"[Verse 1]", "\n">> \o b1 \o <<"\n", "\n", "[Chorus]", "\n">> \o b2 :
             b1 \in LyricBodies(1), b2 \in LyricBodies(1) }
    \cup (LyricBodies(1) \ {<<>>})

VerseElements == {NoVerse, Verse(<<"a">>), Verse(<<"b">>), Verse(<<"a", "-">>)}

LyricDocs ==
  { [ verses |-> v, right |-> "dbl", firstMeasureHasVerse |-> \E cp \in DOMAIN v : v[cp].has ] :
      v \in UNION { [1..n -> VerseElements] : n \in 1..MaxVerses } }

InitLyrics ==
  /\ pc = "normalizeSections"
  /\ doc \in LyricDocs
  /\ inputData \in { [lyricsText |-> t] : t \in LyricsTexts }
  /\ scoreData = [ lyricsText |-> inputData.lyricsText,
                   staffNumbers |-> <<1, 2>>,
                   numChordPositions |-> Len(doc.verses),
                   sections |-> <<>>,
                   expandedChordPositions |-> <<>> ]
  /\ loopVars = [i |-> 0]
  /\ midiLog = [console |-> <<>>]
  /\ currentOptions = defaultOptions

\* _normalizeSections (line 1123 of _parseAndAnnotateMei)
NormalizeSectionsStep ==
  /\ pc = "normalizeSections"
  /\ hasComplexSections(doc)
  /\ \E r \in {NormalizeLyricSections(doc, scoreData)} :
       /\ scoreData' = [scoreData EXCEPT !.sections = r.sections]
       /\ pc' = IF r.threw THEN "threw" ELSE "expandLyrics"
  /\ UNCHANGED <<doc, inputData, loopVars, midiLog, currentOptions>>

\* the expansion loop of _parseAndAnnotateMei (lines 1174-1259)
ExpandLyricsStep ==
  /\ pc = "expandLyrics"
  /\ scoreData' = [scoreData EXCEPT
                     !.expandedChordPositions = ExpandLyricsFrom(doc, scoreData.sections, 1, 1)]
  /\ pc' = "lyricsExpanded"
  /\ UNCHANGED <<doc, inputData, loopVars, midiLog, currentOptions>>

NextLyrics == NormalizeSectionsStep \/ ExpandLyricsStep

SpecLyrics == InitLyrics /\ [][NextLyrics]_vars

------------------------------------------------------------------------------
(* setOptions and _updateMei.  An options object is a set of <<key,        *)
(* value>> pairs.  The document _updateMei saves is the complete document  *)
(* with the changes the options ask for; what is recorded of it is which   *)
(* of the changes were made.                                               *)

MaxUpdatedKeys == 2

OptionPairs ==
  { <<"zoomPercent", z>> : z \in {40, 50} }
    \cup { <<"keySignatureId", k>> : k \in {"null", "a-minor", "c-major"} }
    \cup { <<"expandScore", x>> : x \in {"false", "intro", "full-score"} }
    \cup { <<"showMeasureNumbers", b>> : b \in BOOLEAN }
    \cup { <<"showMelodyOnly", b>> : b \in BOOLEAN }
    \cup { <<"hiddenSectionIds", h>> : h \in {<<>>, <<"section-0">>} }

\* the objects setOptions is called with
OptionsToUpdate ==
  { upd \in SUBSET OptionPairs :
      /\ Cardinality(upd) \in 1..MaxUpdatedKeys
      /\ \A p, q \in upd : p[1] = q[1] => p = q }

\* lines 228-231: this._currentOptions[key] = optionsToUpdate[key]
UpdatedOptions(options, optionsToUpdate) ==
  [ key \in DOMAIN options |->
      IF \E p \in optionsToUpdate : p[1] = key
      THEN (CHOOSE p \in optionsToUpdate : p[1] = key)[2]
      ELSE options[key] ]

\* line 229: oldOptions[key] !== optionsToUpdate[key]; oldOptions is a
\* structuredClone, so an array in it is never the array passed in
updatedOptionKeys(oldOptions, optionsToUpdate) ==
  { p[1] : p \in { q \in optionsToUpdate :
                     q[1] = "hiddenSectionIds" \/ oldOptions[q[1]] # q[2] } }

\* line 292: the options that make setOptions call _updateMei
UpdateMeiKeys ==
  { "showMelodyOnly", "showChordSet", "showChordSetImages", "showFingeringMarks",
    "showMeasureNumbers", "hiddenSectionIds", "expandScore" }

\* the key signatures of a minor score (lines 1136-1165)
nearbyKeySignatureIds == {"g-minor", "a-minor", "b-minor"}

\* lines 269-275: nearbyKeyInfo is undefined for a key signature that is
\* not among the nearby ones
TransposeThrows(options) ==
  options.keySignatureId # "null" /\ options.keySignatureId \notin nearbyKeySignatureIds

\* lines 1328-1680: [meiString, threw]; expansion is null at line 1473 for
\* a document without expansion element
updateMei(sd, options) ==
  [ meiString |->
      [ complete |-> sd.meiStringComplete,
        mnumVisible |-> IF options.showMeasureNumbers THEN "true" ELSE "false",
        melodyOnly |-> options.showMelodyOnly /\ sd.hasMelodyInfo,
        removedSectionIds |-> Range(options.hiddenSectionIds),
        introductionExtracted |-> options.expandScore # "false",
        expanded |-> options.expandScore = "full-score" /\ sd.hasExpansion ],
    threw |-> options.expandScore # "false" /\ ~sd.hasExpansion ]

\* lines 296-302 for a score that is loaded
LoadedData(vrv, sd, options) ==
  IF options.keySignatureId # "null" THEN [vrv EXCEPT !.data = sd.meiString] ELSE vrv

\* lines 290-303 after a change of the options in updatedKeys:
\* [sd, vrv, threw]
ReloadScore(sd, vrv, options, updatedKeys, updated) ==
  IF updatedKeys \cap UpdateMeiKeys = {}
  THEN [sd |-> sd, vrv |-> LoadedData(vrv, sd, options), threw |-> FALSE]
  ELSE IF updated.threw THEN [sd |-> sd, vrv |-> vrv, threw |-> TRUE]
  ELSE [ sd |-> [sd EXCEPT !.meiString = updated.meiString],
         vrv |-> [vrv EXCEPT !.data = updated.meiString],
         threw |-> FALSE ]

\* setOptions on a loaded score: [options, sd, vrv, threw]
setOptions(options, optionsToUpdate, sd, vrv) ==
  IF TransposeThrows(UpdatedOptions(options, optionsToUpdate))
  THEN [ options |-> UpdatedOptions(options, optionsToUpdate),
         sd |-> sd, vrv |-> vrv, threw |-> TRUE ]
  ELSE CHOOSE r \in
         { [ options |-> UpdatedOptions(options, optionsToUpdate),
             sd |-> x.sd,
             vrv |-> [x.vrv EXCEPT !.transpose =
                        UpdatedOptions(options, optionsToUpdate).keySignatureId],
             threw |-> x.threw ] :
             x \in { ReloadScore(sd, vrv, UpdatedOptions(options, optionsToUpdate),
                                 updatedOptionKeys(options, optionsToUpdate),
                                 updateMei(sd, UpdatedOptions(options, optionsToUpdate))) } } : TRUE

------------------------------------------------------------------------------
(* A loaded score and calls of setOptions *)

InitOptions ==
  /\ pc = "load"
  /\ doc = [data |-> "none", transpose |-> "null"]
  /\ inputData = [options |-> defaultOptions]
  /\ scoreData \in { [ meiStringComplete |-> "complete",
                      meiString |-> "none",
                      hasMelodyInfo |-> m,
                      hasExpansion |-> x ] : m \in BOOLEAN, x \in BOOLEAN }
  /\ loopVars = [i |-> 0]
  /\ midiLog = [threw |-> FALSE]
  /\ currentOptions = defaultOptions

\* load() with the default options: _parseAndAnnotateMei ends with
\* _updateMei (line 1324)
LoadWithOptions ==
  /\ pc = "load"
  /\ \E r \in {updateMei(scoreData, currentOptions)} :
       /\ scoreData' = [scoreData EXCEPT !.meiString = r.meiString]
       /\ doc' = [doc EXCEPT !.data = r.meiString]
  /\ pc' = "loaded"
  /\ UNCHANGED <<inputData, loopVars, midiLog, currentOptions>>

\* a call of setOptions, which returns or throws
SetOptions ==
  /\ pc = "loaded"
  /\ \E optionsToUpdate \in OptionsToUpdate :
       \E r \in {setOptions(currentOptions, optionsToUpdate, scoreData, doc)} :
         /\ currentOptions' = r.options
         /\ scoreData' = r.sd
         /\ doc' = r.vrv
         /\ midiLog' = [threw |-> midiLog.threw \/ r.threw]
  /\ UNCHANGED <<pc, inputData, loopVars>>

NextOptions == LoadWithOptions \/ SetOptions

SpecOptions == InitOptions /\ [][NextOptions]_vars

------------------------------------------------------------------------------
(* load(): the dependencies and the fetches of score, MIDI and lyrics      *)
(* (lines 131-170).  loopVars holds the promises given to Promise.all.     *)

Promises == {"dependencies", "score", "midi", "lyrics"}

\* what load() is called with: which of the URLs and contents are given
FetchInputs ==
  [ scoreUrl : BOOLEAN, scoreContent : BOOLEAN, midiUrl : BOOLEAN,
    midiNoteSequence : BOOLEAN, lyricsUrl : BOOLEAN, lyricsText : BOOLEAN ]

\* lines 125-129: without score, the default score is loaded
WithDefaultScore(in) ==
  IF ~(in.scoreUrl \/ in.scoreContent) THEN [in EXCEPT !.scoreContent = TRUE] ELSE in

\* lines 152, 158, 164: whether the promise fetches
Fetches(in, p) ==
  CASE p = "score" -> in.scoreUrl /\ ~in.scoreContent
    [] p = "midi" -> in.midiUrl /\ ~in.midiNoteSequence
    [] p = "lyrics" -> in.lyricsUrl /\ ~in.lyricsText
    [] OTHER -> FALSE

\* a promise for the score alone
ScoreFulfilled(promises) == promises["score"] = "fulfilled"

\* Promise.all (line 149) fulfils when every promise is fulfilled
AllFulfilled(promises) == \A p \in Promises : promises[p] = "fulfilled"

\* Promise.all rejects when one promise is rejected
SomeRejected(promises) == \E p \in Promises : promises[p] = "rejected"

InitFetch ==
  /\ pc = "new"
  /\ doc = [data |-> "none"]
  /\ inputData \in FetchInputs
  /\ scoreData = [isNull |-> TRUE]
  /\ loopVars = [ p \in Promises |-> IF p = "dependencies" THEN "pending" ELSE "none" ]
  /\ midiLog = NoLog
  /\ currentOptions = defaultOptions

\* this._chDependenciesLoaded (line 3895) settles, before or after load()
\* is called
DependenciesSettle ==
  /\ loopVars["dependencies"] = "pending"
  /\ \E result \in {"fulfilled", "rejected"} :
       loopVars' = [loopVars EXCEPT !["dependencies"] = result]
  /\ UNCHANGED <<pc, doc, inputData, scoreData, midiLog, currentOptions>>

\* load() up to its await (lines 124-170): the three async functions run
\* to their first await, or to their end when there is nothing to fetch
CallLoad ==
  /\ pc = "new"
  /\ inputData' = WithDefaultScore(inputData)
  /\ loopVars' = [ p \in Promises |->
                     IF p = "dependencies" THEN loopVars[p]
                     ELSE IF Fetches(WithDefaultScore(inputData), p) THEN "fetching"
                     ELSE "fulfilled" ]
  /\ pc' = "await"
  /\ UNCHANGED <<doc, scoreData, midiLog, currentOptions>>

\* safeFetch (lines 131-145): an ok response, or an error
FetchSettles ==
  /\ \E p \in Promises :
       /\ loopVars[p] = "fetching"
       /\ \E result \in {"reading", "rejected"} :
            loopVars' = [loopVars EXCEPT ![p] = result]
  /\ UNCHANGED <<pc, doc, inputData, scoreData, midiLog, currentOptions>>

\* response.text() or response.arrayBuffer() (lines 154, 160, 166)
BodySettles ==
  /\ \E p \in Promises :
       /\ loopVars[p] = "reading"
       /\ \E result \in {"fulfilled", "rejected"} :
            loopVars' = [loopVars EXCEPT ![p] = result]
  /\ UNCHANGED <<pc, doc, inputData, scoreData, midiLog, currentOptions>>

\* the await of Promise.all throws: load() rejects
LoadRejects ==
  /\ pc = "await"
  /\ SomeRejected(loopVars)
  /\ pc' = "rejected"
  /\ UNCHANGED <<doc, inputData, scoreData, loopVars, midiLog, currentOptions>>

\* the await of Promise.all returns: lines 172-209, up to the call of
\* _parseAndAnnotateMei
LoadContinues ==
  /\ pc = "await"
  /\ AllFulfilled(loopVars)
  /\ doc' = [data |-> "scoreContent"]
  /\ scoreData' = [isNull |-> FALSE]
  /\ pc' = "parseAndAnnotateMei"
  /\ UNCHANGED <<inputData, loopVars, midiLog, currentOptions>>

\* lines 212-217
LoadReturns ==
  /\ pc = "parseAndAnnotateMei"
  /\ pc' = "loaded"
  /\ UNCHANGED <<doc, inputData, scoreData, loopVars, midiLog, currentOptions>>

NextFetch ==
  \/ DependenciesSettle \/ CallLoad \/ FetchSettles \/ BodySettles
  \/ LoadRejects \/ LoadContinues \/ LoadReturns

\* the reactions of a settled Promise.all are run
SpecFetch ==
  InitFetch /\ [][NextFetch]_vars /\ WF_vars(LoadRejects) /\ WF_vars(LoadContinues)

(***************************************************************************)
(* Piano introduction: _extractPianoIntroduction (lines 2417-2895).  The   *)
(* document is the sequence of its elements in document order, "note" for  *)
(* a chord position and "start" / "end" for an element carrying            *)
(* ch-intro-bracket (lines 1101-1105), and the flag intro for the presence *)
(* of section[type="introduction"]; introPositions is the                  *)
(* ch-chord-position list of the section the extraction creates.           *)
(***************************************************************************)
MaxElements == 5

ElementKinds == {"note", "start", "end"}

IsBracket(e) == e \in {"start", "end"}

\* ch-chord-position of the element at index i: the notes before it
ChordPositionAt(elements, i) ==
  Cardinality({ j \in 1..(i - 1) : elements[j] = "note" })

\* lines 2790-2804: the loop over [ch-intro-bracket]; an 'end' with no
\* range open reads introChordPositionRanges.at(-1)[1] of undefined and
\* throws; every bracket visited before that is already removed
RECURSIVE BracketLoop(_, _, _, _)
BracketLoop(elements, i, ranges, kept) ==
  IF i > Len(elements) THEN [ranges |-> ranges, elements |-> kept, threw |-> FALSE]
  ELSE IF elements[i] = "note"
    THEN BracketLoop(elements, i + 1, ranges, Append(kept, "note"))
  ELSE IF elements[i] = "start"
    THEN BracketLoop(elements, i + 1,
                     Append(ranges, <<ChordPositionAt(elements, i), Null>>), kept)
  ELSE IF ranges = <<>>
    THEN [ranges |-> ranges,
          elements |-> kept \o SubSeq(elements, i, Len(elements)),
          threw |-> TRUE]
  ELSE BracketLoop(elements, i + 1,
                   [ranges EXCEPT ![Len(ranges)][2] = ChordPositionAt(elements, i)],
                   kept)

\* lines 2806-2809: for (cp = range[0]; cp < range[1]; cp++); a null end
\* compares as 0
RECURSIVE IntroChordPositions(_)
IntroChordPositions(ranges) ==
  IF ranges = <<>> THEN <<>>
  ELSE LET r == ranges[1]
           end == IF r[2] = Null THEN 0 ELSE r[2]
       IN  [ k \in 1..(IF end > r[1] THEN end - r[1] ELSE 0) |-> r[1] + k - 1 ]
           \o IntroChordPositions(Tail(ranges))

\* lines 2787-2895; the destructuring of a range whose end is null
\* (line 2824) throws
extractPianoIntroduction(meiParsed) ==
  LET loop == BracketLoop(meiParsed.elements, 1, <<>>, <<>>)
      removed == [meiParsed EXCEPT !.elements = loop.elements]
  IN  IF loop.threw THEN [doc |-> removed, threw |-> TRUE]
      ELSE IF meiParsed.intro \/ loop.ranges = <<>>
        THEN [doc |-> removed, threw |-> FALSE]
      ELSE IF \E k \in 1..Len(loop.ranges) : loop.ranges[k][2] = Null
        THEN [doc |-> removed, threw |-> TRUE]
      ELSE [doc |-> [removed EXCEPT !.intro = TRUE,
                                    !.introPositions = IntroChordPositions(loop.ranges)],
            threw |-> FALSE]

RECURSIVE SeqsUpTo(_, _)
SeqsUpTo(S, n) ==
  IF n = 0 THEN {<<>>}
  ELSE LET shorter == SeqsUpTo(S, n - 1)
       IN  shorter \cup { Append(s, x) : s \in shorter, x \in S }

IntroDocs ==
  [intro : BOOLEAN, elements : SeqsUpTo(ElementKinds, MaxElements),
   introPositions : {<<>>}]

InitIntro ==
  /\ pc = "parsed"
  /\ doc \in IntroDocs
  /\ inputData = doc
  /\ scoreData = [hasExpansion |-> TRUE]
  /\ loopVars = <<>>
  /\ midiLog = <<>>
  /\ currentOptions = [defaultOptions EXCEPT !.expandScore = "full-score"]

\* line 1470: this._scoreData.meiParsed = this._extractPianoIntroduction(...)
ExtractPianoIntroduction ==
  /\ pc = "parsed"
  /\ \E r \in {extractPianoIntroduction(doc)} :
       /\ doc' = r.doc
       /\ pc' = IF r.threw THEN "threw" ELSE "extracted"
  /\ UNCHANGED <<inputData, scoreData, loopVars, midiLog, currentOptions>>

NextIntro == ExtractPianoIntroduction

SpecIntro == InitIntro /\ [][NextIntro]_vars

(***************************************************************************)
(* _loadMidi, the alignment loop of lines 488-585 taken one expanded chord *)
(* position at a time, over scores whose ties need not resolve.  Note i of *)
(* the document sits alone at its chord position; a note the timemap never *)
(* turned on is unindexed (chordPosition null, line 787) and belongs to no *)
(* chord position; the id MaxAlignNotes + 1 is the endid of a tie that     *)
(* names no note of the document (lines 748-753).  Every chord position    *)
(* lasts PositionMs; one section holds the chord positions, all of them or *)
(* all but the last.                                                       *)
(***************************************************************************)
MaxAlignNotes == 3

PositionMs == 500

AlignNoteIds == 1..MaxAlignNotes

DanglingId == MaxAlignNotes + 1

AlignNoteSpecs ==
  { n \in [AlignNoteIds -> [tiedNoteId : {Null} \cup (2..DanglingId),
                            hasMidi : BOOLEAN, indexed : BOOLEAN, hasLyric : BOOLEAN]] :
      \A i \in AlignNoteIds : n[i].tiedNoteId # Null => n[i].tiedNoteId > i }

\* line 768 and 790: isAudible = !(isRest || isCue || isTiedNote)
AlignIsTiedNote(n, id) == \E i \in AlignNoteIds : n[i].tiedNoteId = id

\* the chord position of an indexed note: the indexed notes before it
AlignChordPosition(n, id) ==
  IF n[id].indexed THEN Cardinality({ i \in 1..(id - 1) : n[i].indexed }) ELSE Null

\* this._scoreData.notesAndRestsById
AlignNotesById(n) ==
  [id \in AlignNoteIds |->
     [ elementId |-> id,
       tiedNoteId |-> n[id].tiedNoteId,
       isAudible |-> ~AlignIsTiedNote(n, id),
       chordPosition |-> AlignChordPosition(n, id),
       expandedChordPositions |-> <<>> ]]

IndexedIds(n) == SelectSeq([i \in AlignNoteIds |-> i], LAMBDA i : n[i].indexed)

\* this._scoreData.chordPositions after bucketing; inSection stands for
\* Object.hasOwn(expandedChordPositions, sectionId)
AlignChordPositions(n, covered) ==
  [k \in 1..Len(IndexedIds(n)) |->
     [ chordPosition |-> k - 1,
       notesAndRests |-> <<IndexedIds(n)[k]>>,
       hasMidiNotesOfPitch |-> n[IndexedIds(n)[k]].hasMidi,
       referenceDuration |->
          IF n[IndexedIds(n)[k]].tiedNoteId = Null THEN PositionMs ELSE 2 * PositionMs,
       midiDuration |-> PositionMs,
       inSection |-> k <= covered ]]

\* this._scoreData.expandedChordPositions of the one section
AlignExpandedPositions(n, covered) ==
  [e \in 1..covered |->
     [ chordPosition |-> e - 1,
       lyricSyllables |-> IF n[IndexedIds(n)[e]].hasLyric THEN <<"la">> ELSE <<>>,
       lyricIsSkipSymbol |-> FALSE,
       midiStartTime |-> Null,
       midiEndTime |-> Null,
       midiNotes |-> <<>> ]]

AlignScoreData(n, covered) ==
  [ notesAndRestsById |-> AlignNotesById(n),
    chordPositions |-> AlignChordPositions(n, covered),
    expandedChordPositions |-> AlignExpandedPositions(n, covered),
    totalTime |-> Null ]

NoteAt(startTime, duration, meiNotes) ==
  [startTime |-> startTime, endTime |-> startTime + duration, meiNotes |-> meiNotes]

PushNoteAt(expanded, e, midiNote) ==
  [expanded EXCEPT ![e + 1].midiNotes = Append(@, midiNote)]

\* lines 524-577 for the note of expanded chord position e: the expanded
\* chord positions after it, the console warning if any, and whether a
\* TypeError was thrown (line 549 reads tiedNote.chordPosition of undefined
\* when the tie's endid names no note, and
\* chordPositions[null].expandedChordPositions when the tied note is
\* unindexed)
AlignNote(sd, e, startTimeCounter) ==
  LET cpInfo == sd.chordPositions[sd.expandedChordPositions[e + 1].chordPosition + 1]
      note == sd.notesAndRestsById[cpInfo.notesAndRests[1]]
      same == [expanded |-> sd.expandedChordPositions, warned |-> FALSE, threw |-> FALSE]
  IN  IF sd.expandedChordPositions[e + 1].lyricIsSkipSymbol THEN same
      ELSE IF ~note.isAudible THEN same
      ELSE IF ~cpInfo.hasMidiNotesOfPitch THEN [same EXCEPT !.warned = TRUE]
      ELSE IF note.tiedNoteId = Null
        THEN [same EXCEPT !.expanded =
                PushNoteAt(@, e, NoteAt(startTimeCounter, cpInfo.referenceDuration,
                                        <<note.elementId>>))]
      ELSE IF note.tiedNoteId \notin DOMAIN sd.notesAndRestsById
        THEN [same EXCEPT !.threw = TRUE]
      ELSE IF sd.notesAndRestsById[note.tiedNoteId].chordPosition = Null
        THEN [same EXCEPT !.threw = TRUE]
      ELSE LET tiedNote == sd.notesAndRestsById[note.tiedNoteId]
               tiedCp == sd.chordPositions[tiedNote.chordPosition + 1]
           IN  IF ~tiedCp.inSection THEN same
               ELSE LET te == tiedCp.chordPosition
                        tiedInfo == sd.expandedChordPositions[te + 1]
                    IN  IF tiedInfo.lyricSyllables # <<>> /\ ~tiedInfo.lyricIsSkipSymbol
                        THEN [same EXCEPT !.expanded =
                                PushNoteAt(
                                  PushNoteAt(@, e,
                                    NoteAt(startTimeCounter,
                                           cpInfo.referenceDuration - tiedCp.midiDuration,
                                           <<note.elementId>>)),
                                  te,
                                  NoteAt(startTimeCounter + cpInfo.midiDuration,
                                         cpInfo.referenceDuration - cpInfo.midiDuration,
                                         <<tiedNote.elementId>>))]
                        ELSE [same EXCEPT !.expanded =
                                PushNoteAt(@, e,
                                  NoteAt(startTimeCounter, cpInfo.referenceDuration,
                                         <<note.elementId, tiedNote.elementId>>))]

InitAlign ==
  /\ pc = "align"
  /\ doc \in AlignNoteSpecs
  /\ \E covered \in {Len(IndexedIds(doc)), Len(IndexedIds(doc)) - 1} :
       /\ covered >= 1
       /\ scoreData = AlignScoreData(doc, covered)
  /\ inputData = <<>>
  /\ loopVars = [expandedChordPosition |-> 0, startTimeCounter |-> 0]
  /\ midiLog = [console |-> <<>>]
  /\ currentOptions = defaultOptions

\* one iteration of the loop of line 492
AlignPosition ==
  /\ pc = "align"
  /\ loopVars.expandedChordPosition < Len(scoreData.expandedChordPositions)
  /\ \E e \in {loopVars.expandedChordPosition} :
     \E r \in {AlignNote([scoreData EXCEPT
                            !.expandedChordPositions[e + 1].midiStartTime =
                               loopVars.startTimeCounter],
                         e, loopVars.startTimeCounter)} :
       IF r.threw
       THEN /\ pc' = "threw"
            /\ scoreData' = [scoreData EXCEPT
                 !.expandedChordPositions[e + 1].midiStartTime = loopVars.startTimeCounter]
            /\ UNCHANGED <<loopVars, midiLog>>
       ELSE /\ pc' = "align"
            /\ scoreData' = [scoreData EXCEPT
                 !.expandedChordPositions =
                    [r.expanded EXCEPT
                       ![e + 1].midiEndTime =
                          loopVars.startTimeCounter
                            + scoreData.chordPositions[
                                scoreData.expandedChordPositions[e + 1].chordPosition + 1
                              ].midiDuration]]
            /\ loopVars' = [expandedChordPosition |-> e + 1,
                            startTimeCounter |->
                               loopVars.startTimeCounter
                                 + scoreData.chordPositions[
                                     scoreData.expandedChordPositions[e + 1].chordPosition + 1
                                   ].midiDuration]
            /\ midiLog' = IF r.warned
                          THEN [midiLog EXCEPT !.console =
                                  Append(@, scoreData.chordPositions[
                                     scoreData.expandedChordPositions[e + 1].chordPosition + 1
                                   ].notesAndRests[1])]
                          ELSE midiLog
  /\ UNCHANGED <<doc, inputData, currentOptions>>

\* lines 584-585
AlignDone ==
  /\ pc = "align"
  /\ loopVars.expandedChordPosition = Len(scoreData.expandedChordPositions)
  /\ pc' = "done"
  /\ scoreData' = [scoreData EXCEPT !.totalTime = loopVars.startTimeCounter]
  /\ UNCHANGED <<doc, inputData, loopVars, midiLog, currentOptions>>

NextAlign == AlignPosition \/ AlignDone

SpecAlign == InitAlign /\ [][NextAlign]_vars

(***************************************************************************)
(* The lyric syllables of the expanded chord positions (lines 1186-1234)   *)
(* followed by the alignment loop.  One section ranges over                *)
(* MaxSkipPositions chord positions, each with one note; the verse         *)
(* elements that the range's lyric line ids select at a chord position     *)
(* (one per selected lyric line) carry a syllable text each, possibly      *)
(* blank; the first note may be tied, to the second note or to an id that  *)
(* names no note.                                                          *)
(***************************************************************************)
MaxSkipPositions == 2

MaxLyricLines == 2

\* the em dash U+2014 of line 1229, written here as a hyphen
SkipSymbol == "-"

SylTexts == {SkipSymbol, "la", ""}

RECURSIVE JoinFrom(_, _)
JoinFrom(texts, i) ==
  IF i > Len(texts) THEN ""
  ELSE IF i = 1 THEN texts[1] \o JoinFrom(texts, 2)
  ELSE "," \o texts[i] \o JoinFrom(texts, i + 1)

\* Array.prototype.join() with the default separator
join(texts) == JoinFrom(texts, 1)

\* lines 1215-1218: the non-blank syllable texts, in document order
NonBlank(texts) == SelectSeq(texts, LAMBDA t : t # "")

\* line 1229
lyricIsSkipSymbol(lyricSyllables) == join(lyricSyllables) = SkipSymbol

\* line 1229 with one flag per syllable
EverySyllableIsSkipSymbol(lyricSyllables) ==
  /\ lyricSyllables # <<>>
  /\ \A i \in DOMAIN lyricSyllables : lyricSyllables[i] = SkipSymbol

SkipDocs ==
  [ syllables : [1..MaxSkipPositions -> SeqsUpTo(SylTexts, MaxLyricLines)],
    tiedNoteId : {Null} \cup (2..(MaxSkipPositions + 1)) ]

SkipNotesById(d) ==
  [id \in 1..MaxSkipPositions |->
     [ elementId |-> id,
       tiedNoteId |-> IF id = 1 THEN d.tiedNoteId ELSE Null,
       isAudible |-> id # d.tiedNoteId,
       chordPosition |-> id - 1,
       expandedChordPositions |-> <<>> ]]

SkipChordPositions(d) ==
  [k \in 1..MaxSkipPositions |->
     [ chordPosition |-> k - 1,
       notesAndRests |-> <<k>>,
       hasMidiNotesOfPitch |-> TRUE,
       referenceDuration |-> IF d.tiedNoteId # Null /\ k = 1 THEN 2 * PositionMs ELSE PositionMs,
       midiDuration |-> PositionMs,
       inSection |-> TRUE ]]

InitSkip ==
  /\ pc = "expand"
  /\ doc \in SkipDocs
  /\ scoreData = [ notesAndRestsById |-> SkipNotesById(doc),
                   chordPositions |-> SkipChordPositions(doc),
                   expandedChordPositions |-> <<>>,
                   totalTime |-> Null ]
  /\ inputData = <<>>
  /\ loopVars = [expandedChordPosition |-> 0, startTimeCounter |-> 0]
  /\ midiLog = [console |-> <<>>]
  /\ currentOptions = defaultOptions

\* lines 1186-1234 for the next chord position of the range
ExpandLyricPosition ==
  /\ pc = "expand"
  /\ \E cp \in {Len(scoreData.expandedChordPositions)} :
       /\ scoreData' = [scoreData EXCEPT !.expandedChordPositions =
            Append(@, [ chordPosition |-> cp,
                        lyricSyllables |-> NonBlank(doc.syllables[cp + 1]),
                        lyricIsSkipSymbol |->
                           lyricIsSkipSymbol(NonBlank(doc.syllables[cp + 1])),
                        midiStartTime |-> Null,
                        midiEndTime |-> Null,
                        midiNotes |-> <<>> ])]
       /\ pc' = IF cp + 1 = MaxSkipPositions THEN "align" ELSE "expand"
  /\ UNCHANGED <<doc, inputData, loopVars, midiLog, currentOptions>>

NextSkip == ExpandLyricPosition \/ AlignPosition \/ AlignDone

SpecSkip == InitSkip /\ [][NextSkip]_vars

(***************************************************************************)
(* _generateSectionsFromSimpleScore, the chorus ranges of lines 3718-3763. *)
(* The melody of a score of MaxChorusPositions chord positions carries, at *)
(* each chord position, no lyric line, the line of verse 1 alone, or the   *)
(* lines of verses 1 and 2.  Chord positions are written as integers:      *)
(* String and parseInt are inverse to each other on them.                  *)
(***************************************************************************)
MaxChorusPositions == 7

\* line 3722
maxAllowedGap == 3

ChorusDocs == [0..(MaxChorusPositions - 1) -> 0..2]

\* line 3721: meiParsed.querySelector('verse:not([n="1"])')
HasSecondVerse(d) == \E cp \in DOMAIN d : d[cp] = 2

\* lines 3733-3739 from chord position cp on: Object.entries visits the
\* chord positions that have a melody lyric in ascending order
RECURSIVE LyricGapsFrom(_, _, _)
LyricGapsFrom(d, cp, lyricGaps) ==
  IF cp >= MaxChorusPositions THEN lyricGaps
  ELSE IF d[cp] = 0 THEN LyricGapsFrom(d, cp + 1, lyricGaps)
  ELSE IF d[cp] = 1
    THEN LyricGapsFrom(d, cp + 1,
           [lyricGaps EXCEPT ![Len(lyricGaps)] = Append(@, cp)])
  ELSE LyricGapsFrom(d, cp + 1, Append(lyricGaps, <<>>))

\* array[index] = value, which lengthens the array when index is past its
\* end; the indices in between are never assigned (Null)
SetIndex(array, index, value) ==
  [i \in 1..(IF index + 1 > Len(array) THEN index + 1 ELSE Len(array)) |->
     IF i = index + 1 THEN value
     ELSE IF i <= Len(array) THEN array[i] ELSE Null]

\* the index written by line 3753
EndClampIndex(lyricGap, lyricGaps) == Len(lyricGaps) - 1

\* the index of the last element of the run
LastIndex(lyricGap, lyricGaps) == Len(lyricGap) - 1

\* lines 3749-3754
ClampGap(lyricGap, lyricGaps, numChordPositions) ==
  LET startClamped == IF lyricGap[1] - maxAllowedGap <= 0
                      THEN SetIndex(lyricGap, 0, 0) ELSE lyricGap
  IN  IF startClamped[Len(startClamped)] + maxAllowedGap > numChordPositions - 1
      THEN SetIndex(startClamped, EndClampIndex(startClamped, lyricGaps),
                    numChordPositions - 1)
      ELSE startClamped

\* Array.from({length: end - start}, (_, i) => start + i)
ArrayFromTo(start, end) ==
  [i \in 1..(IF end > start THEN end - start ELSE 0) |-> start + i - 1]

\* lines 3756-3758
ChorusCpRange(lyricGap, lyricGaps, numChordPositions) ==
  LET clamped == ClampGap(lyricGap, lyricGaps, numChordPositions)
  IN  ArrayFromTo(clamped[1], clamped[Len(clamped)] + 1)

InitChorus ==
  /\ pc = "parsed"
  /\ doc \in ChorusDocs
  /\ scoreData = [numChordPositions |-> MaxChorusPositions, chorusCpRanges |-> <<>>]
  /\ loopVars = [lyricGaps |-> <<>>, next |-> 0]
  /\ inputData = <<>>
  /\ midiLog = <<>>
  /\ currentOptions = defaultOptions

\* lines 3721-3740
CollectLyricGaps ==
  /\ pc = "parsed"
  /\ HasSecondVerse(doc)
  /\ loopVars' = [lyricGaps |-> LyricGapsFrom(doc, 0, << <<>> >>), next |-> 0]
  /\ pc' = "gaps"
  /\ UNCHANGED <<doc, inputData, scoreData, midiLog, currentOptions>>

\* line 3721 when every verse has n = 1
NoSecondVerse ==
  /\ pc = "parsed"
  /\ ~HasSecondVerse(doc)
  /\ pc' = "done"
  /\ UNCHANGED <<doc, inputData, scoreData, loopVars, midiLog, currentOptions>>

\* one iteration of the loop of line 3741
ChorusRangeStep ==
  /\ pc = "gaps"
  /\ \E lyricGap \in {loopVars.lyricGaps[loopVars.next + 1]} :
       scoreData' = [scoreData EXCEPT !.chorusCpRanges =
          IF Len(lyricGap) > maxAllowedGap
          THEN Append(@, ChorusCpRange(lyricGap, loopVars.lyricGaps,
                                       scoreData.numChordPositions))
          ELSE @]
  /\ loopVars' = [loopVars EXCEPT !.next = @ + 1]
  /\ pc' = IF loopVars.next + 1 = Len(loopVars.lyricGaps) THEN "done" ELSE "gaps"
  /\ UNCHANGED <<doc, inputData, midiLog, currentOptions>>

NextChorus == CollectLyricGaps \/ NoSecondVerse \/ ChorusRangeStep

SpecChorus == InitChorus /\ [][NextChorus]_vars

(***************************************************************************)
(* _markSingleLineChordPositions (lines 3149-3220) for one staff.  The     *)
(* melody carries, at each of MaxSinglePositions chord positions, no lyric *)
(* line, one lyric line or two; the one lyric chord position range starts  *)
(* at chord position 0 or 1 and runs to the end of the score.              *)
(***************************************************************************)
MaxSinglePositions == 6

SingleDocs ==
  [ lines : [0..(MaxSinglePositions - 1) -> 0..2], rangeStart : {0, 1} ]

\* lines 3163-3169: ecpToCp
EcpToCp(d, ecp) == ecp + d.rangeStart

NumEcps(d) == MaxSinglePositions - d.rangeStart

\* lyricLinesByStaffAndCp[staffNumber][ecpToCp[ecp]].size, 0 when absent
LineCount(d, ecp) == d.lines[EcpToCp(d, ecp)]

\* lines 3178-3196 for one expanded chord position
ScanOne(d, ecp, v) ==
  IF LineCount(d, ecp) = 0
  THEN [v EXCEPT !.noLyricEcps = @ \cup {ecp}]
  ELSE LET pushed == IF LineCount(d, ecp) > 1 \/ v.oneLyricEcpRanges = <<>>
                     THEN Append(v.oneLyricEcpRanges, [start |-> Null, end |-> Null])
                     ELSE v.oneLyricEcpRanges
           last == Len(pushed)
       IN  [v EXCEPT
              !.firstLyricEcp = IF @ = Null THEN ecp ELSE @,
              !.oneLyricEcpRanges =
                 IF LineCount(d, ecp) = 1
                 THEN [pushed EXCEPT ![last] =
                         [start |-> IF pushed[last].start = Null THEN ecp
                                    ELSE pushed[last].start,
                          end |-> ecp + 1]]
                 ELSE pushed]

\* line 3201: !oneLyricEcpRange.start holds of null and of 0
StartIsFalsy(start) == start = Null \/ start = 0

RECURSIVE ExtendBack(_, _)
ExtendBack(noLyricEcps, rangeStart) ==
  IF (rangeStart - 1) \in noLyricEcps
  THEN ExtendBack(noLyricEcps, rangeStart - 1) ELSE rangeStart

RECURSIVE ExtendForward(_, _)
ExtendForward(noLyricEcps, rangeEnd) ==
  IF rangeEnd \in noLyricEcps
  THEN ExtendForward(noLyricEcps, rangeEnd + 1) ELSE rangeEnd

\* lines 3201-3215: the expanded chord positions marked for one range
MarkedEcps(v, r) ==
  IF StartIsFalsy(r.start) \/ r.end - r.start <= maxAllowedGap THEN {}
  ELSE (IF r.start = v.firstLyricEcp
        THEN ExtendBack(v.noLyricEcps, r.start) ELSE r.start)
       .. (ExtendForward(v.noLyricEcps, r.end) - 1)

InitSingle ==
  /\ pc = "scan"
  /\ doc \in SingleDocs
  /\ scoreData = [isSingleLine |-> [cp \in 0..(MaxSinglePositions - 1) |-> FALSE]]
  /\ loopVars = [ecp |-> 0, firstLyricEcp |-> Null, noLyricEcps |-> {},
                 oneLyricEcpRanges |-> <<>>, next |-> 0]
  /\ inputData = <<>>
  /\ midiLog = <<>>
  /\ currentOptions = defaultOptions

\* one iteration of the loop of line 3177
ScanEcp ==
  /\ pc = "scan"
  /\ loopVars' = [ScanOne(doc, loopVars.ecp, loopVars) EXCEPT !.ecp = @ + 1]
  /\ pc' = IF loopVars.ecp + 1 = NumEcps(doc)
           THEN (IF loopVars'.oneLyricEcpRanges = <<>> THEN "done" ELSE "filter")
           ELSE "scan"
  /\ UNCHANGED <<doc, inputData, scoreData, midiLog, currentOptions>>

\* one iteration of the loop of line 3200
FilterRange ==
  /\ pc = "filter"
  /\ scoreData' = [scoreData EXCEPT !.isSingleLine =
        [cp \in DOMAIN @ |->
           \/ @[cp]
           \/ \E ecp \in MarkedEcps(loopVars, loopVars.oneLyricEcpRanges[loopVars.next + 1]) :
                 EcpToCp(doc, ecp) = cp]]
  /\ loopVars' = [loopVars EXCEPT !.next = @ + 1]
  /\ pc' = IF loopVars.next + 1 = Len(loopVars.oneLyricEcpRanges) THEN "done" ELSE "filter"
  /\ UNCHANGED <<doc, inputData, midiLog, currentOptions>>

NextSingle == ScanEcp \/ FilterRange

SpecSingle == InitSingle /\ [][NextSingle]_vars

(***************************************************************************)
(* _extractPianoIntroduction, the extraction of lines 2513-2858, over one  *)
(* measure with one layer of MaxCloneElements notes or chords (a chord has *)
(* one note child), each one tstamp long, at most one tie between two of   *)
(* the notes, and one or two bracket ranges of tstamps.  An xml:id is      *)
(* written as the element's kind, its number, and how many times the       *)
(* suffix '-intro' was appended.                                           *)
(***************************************************************************)
MaxCloneElements == 3

ClonePositions == 1..MaxCloneElements

XmlId(kind, n) == [kind |-> kind, n |-> n, intro |-> 0]

\* `${oldId}-intro` (lines 2429 and 2439)
IntroId(oldId) == [oldId EXCEPT !.intro = @ + 1]

CloneRanges ==
  { r \in SeqsUpTo(ClonePositions \X (2..(MaxCloneElements + 1)), 2) :
      /\ r # <<>>
      /\ \A i \in DOMAIN r : r[i][1] < r[i][2]
      /\ Len(r) = 2 => r[1][2] <= r[2][1] }

CloneTies ==
  {<<>>} \cup { <<t>> : t \in { p \in ClonePositions \X ClonePositions : p[1] < p[2] } }

CloneDocs ==
  [ isChord : [ClonePositions -> BOOLEAN], ties : CloneTies, ranges : CloneRanges ]

\* the elements with an xml:id that the measure holds before extraction
MainElements(d) ==
  [p \in ClonePositions |->
      IF d.isChord[p] THEN <<XmlId("chord", p), XmlId("note", p)>>
      ELSE <<XmlId("note", p)>>]

\* updateElementIds (lines 2422-2433) on the clone of the element at
\* tstamp p: the ids of the clone's elements.  Of a chord, only the note
\* children are renamed
ClonedIds(d, p) ==
  IF d.isChord[p] THEN <<XmlId("chord", p), IntroId(XmlId("note", p))>>
  ELSE <<IntroId(XmlId("note", p))>>

RECURSIVE FlattenIds(_)
FlattenIds(seqs) ==
  IF seqs = <<>> THEN <<>> ELSE Head(seqs) \o FlattenIds(Tail(seqs))

\* copyLayerRange (lines 2541-2632) over the tstamps of the range
CopyLayerRange(d, range) ==
  FlattenIds([k \in 1..(range[2] - range[1]) |-> ClonedIds(d, range[1] + k - 1)])

\* updateIdReferences (lines 2635-2650) of one reference
UpdatedReference(idMap, oldId) ==
  IF oldId \in idMap THEN IntroId(oldId) ELSE oldId

\* lines 2764-2772: the clone of the measure's tie, renamed by
\* updateElementAndChildIds, with its references updated
ClonedTies(d, idMap) ==
  [k \in DOMAIN d.ties |->
     [ id |-> IntroId(XmlId("tie", k)),
       startid |-> UpdatedReference(idMap, XmlId("note", d.ties[k][1])),
       endid |-> UpdatedReference(idMap, XmlId("note", d.ties[k][2])) ]]

IsNoteOrChord(id) == id.kind \in {"note", "chord"}

\* lines 2837-2841
IntroNoteIds(intro) ==
  { intro.elements[i] : i \in { j \in DOMAIN intro.elements :
                                   IsNoteOrChord(intro.elements[j]) } }

\* lines 2844-2855
KeptTies(intro) ==
  SelectSeq(intro.ties, LAMBDA t : /\ t.startid \in IntroNoteIds(intro)
                                    /\ t.endid \in IntroNoteIds(intro))

InitClone ==
  /\ pc = "extract"
  /\ doc \in CloneDocs
  /\ scoreData = [ main |-> FlattenIds(MainElements(doc))
                              \o [k \in DOMAIN doc.ties |-> XmlId("tie", k)],
                   intro |-> [elements |-> <<>>, ties |-> <<>>] ]
  /\ loopVars = [idMap |-> {}, next |-> 0]
  /\ inputData = <<>>
  /\ midiLog = <<>>
  /\ currentOptions = defaultOptions

\* one iteration of the loop of line 2824: extractRange on the next range
ExtractRangeStep ==
  /\ pc = "extract"
  /\ loopVars.next < Len(doc.ranges)
  /\ \E range \in {doc.ranges[loopVars.next + 1]} :
     \E idMap \in {loopVars.idMap
                     \cup { XmlId("note", p) : p \in range[1]..(range[2] - 1) }} :
        /\ scoreData' = [scoreData EXCEPT
              !.intro.elements = @ \o CopyLayerRange(doc, range),
              !.intro.ties = @ \o ClonedTies(doc, idMap)]
        /\ loopVars' = [idMap |-> idMap, next |-> loopVars.next + 1]
  /\ pc' = "extract"
  /\ UNCHANGED <<doc, inputData, midiLog, currentOptions>>

\* lines 2829-2855
CleanUpIntro ==
  /\ pc = "extract"
  /\ loopVars.next = Len(doc.ranges)
  /\ scoreData' = [scoreData EXCEPT !.intro.ties = KeptTies(scoreData.intro)]
  /\ pc' = "extracted"
  /\ UNCHANGED <<doc, inputData, loopVars, midiLog, currentOptions>>

NextClone == ExtractRangeStep \/ CleanUpIntro

SpecClone == InitClone /\ [][NextClone]_vars

(***************************************************************************)
(* _normalizeSections with sections given to load() (lines 3271-3365), for *)
(* a score with one lyric line and no expansion element.                   *)
(***************************************************************************)
\* lines 3381-3422 for one range of chord positions
RECURSIVE ExtractRangeFrom(_, _, _, _, _)
ExtractRangeFrom(verses, cp, end, ecpCounter, extracted) ==
  IF cp >= end THEN [extracted |-> extracted, ecpCounter |-> ecpCounter]
  ELSE ExtractRangeFrom(verses, cp + 1, end, ecpCounter + 1,
         IF verses[cp + 1].has
         THEN Append(extracted, [ text |-> SyllableText(verses[cp + 1].syl),
                                  chordPositions |-> <<cp>>,
                                  expandedChordPositions |-> <<ecpCounter>>,
                                  lyricLineIds |-> <<LyricLineId>> ])
         ELSE [extracted EXCEPT
                 ![Len(extracted)].chordPositions = Append(@, cp),
                 ![Len(extracted)].expandedChordPositions = Append(@, ecpCounter)])

\* lines 3380-3423: the loop over lyricChordPositionRanges, from range ri on
RECURSIVE ExtractRangesFrom(_, _, _, _, _)
ExtractRangesFrom(verses, ranges, ri, ecpCounter, extracted) ==
  IF ri > Len(ranges) THEN extracted
  ELSE CHOOSE r \in
         { ExtractRangesFrom(verses, ranges, ri + 1, x.ecpCounter, x.extracted) :
             x \in { ExtractRangeFrom(verses, ranges[ri][1], ranges[ri][2],
                                      ecpCounter, extracted) } } : TRUE

\* _extractLyricStanzas(lyricChordPositionRanges, ecpStart): [stanzas, threw]
extractLyricStanzasOfRanges(d, sd, lyricChordPositionRanges, ecpStart) ==
  alignSyllablesToLyrics(
    sd.lyricsText,
    ExtractRangesFrom(d.verses, lyricChordPositionRanges, 1, ecpStart,
                      << [ text |-> <<>>, chordPositions |-> <<>>,
                           expandedChordPositions |-> <<>>, lyricLineIds |-> <<>> ] >>),
    sd.staffNumbers)

\* lines 3288-3294
RECURSIVE RangesLength(_)
RangesLength(ranges) ==
  IF ranges = <<>> THEN 0
  ELSE ranges[1].end - ranges[1].start + RangesLength(Tail(ranges))

\* lines 3298-3301: the ranges of the sections, in order
RECURSIVE LyricRangesOf(_)
LyricRangesOf(sections) ==
  IF sections = <<>> THEN <<>>
  ELSE [k \in DOMAIN sections[1].chordPositionRanges |->
          << sections[1].chordPositionRanges[k].start,
             sections[1].chordPositionRanges[k].end >>]
       \o LyricRangesOf(Tail(sections))

\* lines 3345-3354
BelowSection(lyricStanza, sectionBelowCounter) ==
  [ sectionId |-> "below-" \o ToString(sectionBelowCounter),
    type |-> lyricStanza.type,
    name |-> lyricStanza.name,
    marker |-> lyricStanza.marker,
    placement |-> "below",
    pauseAfter |-> FALSE,
    chordPositionRanges |-> lyricStanza.chordPositionRanges,
    annotatedLyrics |-> lyricStanza.annotatedLyrics ]

\* lines 3335-3361: the annotated lyrics of the stanzas go to the sections
\* of the same place and type; a stanza beyond the sections becomes a
\* section below the score; the first stanza that fits neither ends the loop
RECURSIVE AnnotateFrom(_, _, _, _)
AnnotateFrom(lyricStanzas, ls, otherSections, sectionBelowCounter) ==
  IF ls > Len(lyricStanzas) THEN otherSections
  ELSE IF ls > Len(otherSections)
    THEN AnnotateFrom(lyricStanzas, ls + 1,
                      Append(otherSections, BelowSection(lyricStanzas[ls], sectionBelowCounter)),
                      sectionBelowCounter + 1)
  ELSE IF otherSections[ls].type = lyricStanzas[ls].type
          /\ otherSections[ls].annotatedLyrics = <<>>
    THEN AnnotateFrom(lyricStanzas, ls + 1,
                      [otherSections EXCEPT ![ls].annotatedLyrics =
                                               lyricStanzas[ls].annotatedLyrics],
                      sectionBelowCounter)
  ELSE otherSections

\* lines 3278-3281
PrebuiltIntro(sections) ==
  IF sections[1].type = "introduction" THEN <<sections[1]>> ELSE <<>>

\* the sections taken whole, a leading introduction included
AllSections(sections) == sections

PrebuiltOthers(sections) ==
  IF sections[1].type = "introduction" THEN Tail(sections) ELSE sections

\* lines 3317-3331 when no section besides the introduction was given
InferredOthers(lyricStanzas, introSection, lyricChordPositionRanges, sd) ==
  IF lyricStanzas = <<>>
  THEN [intro |-> introSection, others |-> DefaultLyricSection(sd), threw |-> FALSE]
  ELSE IF lyricStanzas[1].chordPositionRanges = <<>>
    THEN [intro |-> introSection, others |-> <<>>, threw |-> TRUE]
  ELSE [ intro |-> IF introSection = <<>> /\ lyricStanzas[1].chordPositionRanges[1].start # 0
                   THEN << IntroSection(0, lyricStanzas[1].chordPositionRanges[1].start,
                                        sd.staffNumbers) >>
                   ELSE introSection,
         others |-> generateSectionsFromLyricStanzas(lyricStanzas),
         threw |-> FALSE ]

SectionsAfterStanzas(x, introSection, otherSections, ranges, sd) ==
  IF x.threw THEN [sections |-> sd.sections, threw |-> TRUE]
  ELSE IF otherSections # <<>>
    THEN [sections |-> introSection \o AnnotateFrom(x.stanzas, 1, otherSections, 0),
          threw |-> FALSE]
  ELSE CHOOSE r \in
         { IF inf.threw THEN [sections |-> sd.sections, threw |-> TRUE]
           ELSE [sections |-> inf.intro \o AnnotateFrom(x.stanzas, 1, inf.others, 0),
                 threw |-> FALSE] :
             inf \in {InferredOthers(x.stanzas, introSection, ranges, sd)} } : TRUE

SectionsOverRanges(d, sd, introSection, otherSections, ranges) ==
  CHOOSE r \in
    { SectionsAfterStanzas(x, introSection, otherSections, ranges, sd) :
        x \in { extractLyricStanzasOfRanges(
                  d, sd, ranges,
                  IF introSection = <<>> THEN 0
                  ELSE RangesLength(introSection[1].chordPositionRanges)) } } : TRUE

\* lines 3271-3365 with hasPrebuiltSections: [sections, threw]
NormalizePrebuiltSections(d, sd) ==
  SectionsOverRanges(d, sd, PrebuiltIntro(sd.sections), PrebuiltOthers(sd.sections),
                     IF PrebuiltOthers(sd.sections) # <<>>
                     THEN LyricRangesOf(PrebuiltOthers(sd.sections))
                     ELSE << <<0, sd.numChordPositions>> >>)

GivenSection(sectionId, type, start, end) ==
  [ sectionId |-> sectionId, type |-> type, name |-> sectionId,
    marker |-> "null", placement |-> "inline", pauseAfter |-> FALSE,
    chordPositionRanges |-> << [ start |-> start, end |-> end,
                                 staffNumbers |-> <<1, 2>>,
                                 lyricLineIds |-> <<LyricLineId>> ] >>,
    annotatedLyrics |-> <<>> ]

\* the section lists given to load() for a score of n chord positions
GivenSectionLists(n) ==
  { <<>>,
    << GivenSection("v1", "verse", 0, n) >>,
    << GivenSection("c", "chorus", 0, n) >>,
    << GivenSection("intro", "introduction", 0, 1) >>,
    << GivenSection("intro", "introduction", 0, 1), GivenSection("v1", "verse", 0, n) >>,
    << GivenSection("v1", "verse", 0, n), GivenSection("c", "chorus", 0, n) >>,
    << GivenSection("v1", "verse", 0, n), GivenSection("intro", "introduction", 0, 1) >> }

\* no lyrics, one stanza, two stanzas, or a text without label
GivenLyricsTexts ==
  {<<>>}
    \cup { <<"[Verse 1]", "\n">> \o b : b \in LyricBodies(1) }
    \cup { <<"[Verse 1]", "\n">> \o b1 \o <<"\n", "\n", "[Chorus]", "\n">> \o b2 :
             b1 \in LyricBodies(1), b2 \in LyricBodies(1) }
    \cup (LyricBodies(1) \ {<<>>})

InitSections ==
  /\ pc = "normalizeSections"
  /\ doc \in LyricDocs
  /\ inputData \in { [lyricsText |-> t, sections |-> s] :
                       t \in GivenLyricsTexts, s \in GivenSectionLists(Len(doc.verses)) }
  /\ scoreData = [ lyricsText |-> inputData.lyricsText,
                   staffNumbers |-> <<1, 2>>,
                   numChordPositions |-> Len(doc.verses),
                   sections |-> inputData.sections,
                   expandedChordPositions |-> <<>> ]
  /\ loopVars = [i |-> 0]
  /\ midiLog = [console |-> <<>>]
  /\ currentOptions = defaultOptions

\* _normalizeSections with sections given (line 1123 of _parseAndAnnotateMei)
NormalizePrebuiltStep ==
  /\ pc = "normalizeSections"
  /\ scoreData.sections # <<>>
  /\ \E r \in {NormalizePrebuiltSections(doc, scoreData)} :
       /\ scoreData' = [scoreData EXCEPT !.sections = r.sections]
       /\ pc' = IF r.threw THEN "threw" ELSE "expandLyrics"
  /\ UNCHANGED <<doc, inputData, loopVars, midiLog, currentOptions>>

\* _normalizeSections without sections given
NormalizeInferredStep ==
  /\ scoreData.sections = <<>>
  /\ NormalizeSectionsStep

NextSections == NormalizePrebuiltStep \/ NormalizeInferredStep \/ ExpandLyricsStep

SpecSections == InitSections /\ [][NextSections]_vars

(***************************************************************************)
(* The ChScore instances of a page: the constructor (lines 8-121), load()  *)
(* as far as it stores the score data and draws into the container, and    *)
(* removeScore() (lines 308-318).  ChScore.prototype._chScores (line 3898) *)
(* is one array shared by the instances; an assignment to this._chScores   *)
(* gives the instance a property of its own that hides the shared one.     *)
(***************************************************************************)
MaxScores == 3

Containers == {"#score-a", "#score-b"}

ScoreIds == 1..MaxScores

\* the instance before new ChScore(...) has run for it
Unborn == [container |-> "null", state |-> "unborn", hasScoreData |-> FALSE,
           ownChScores |-> <<Null>>]

EmptyContainer == [score |-> Null, status |-> "null", innerHTML |-> Null]

\* this._chScores as instance i sees it
ChScoresOf(instances, shared, i) ==
  IF instances[i].ownChScores = <<Null>> THEN shared ELSE instances[i].ownChScores

\* line 317: no instance has a property scoreContainer, so
\* chScore.scoreContainer !== this._container holds of every instance
FilteredChScores(chScores, instances, container) ==
  SelectSeq(chScores, LAMBDA s : "undefined" # container)

InitRegistry ==
  /\ pc = "ready"
  /\ doc = [c \in Containers |-> EmptyContainer]
  /\ scoreData = [i \in ScoreIds |-> Unborn]
  /\ loopVars = <<>>
  /\ inputData = <<>>
  /\ midiLog = [threw |-> FALSE]
  /\ currentOptions = defaultOptions

\* new ChScore(containerSelector) on a container without score
Construct ==
  \E i \in ScoreIds, c \in Containers :
    /\ scoreData[i].state = "unborn"
    /\ \A j \in 1..(i - 1) : scoreData[j].state # "unborn"
    /\ doc[c].score = Null
    /\ scoreData' = [scoreData EXCEPT ![i].container = c, ![i].state = "ready"]
    /\ loopVars' = Append(loopVars, i)
    /\ doc' = [doc EXCEPT ![c].score = i, ![c].status = "ready"]
    /\ pc' = "ready"
    /\ UNCHANGED <<inputData, midiLog, currentOptions>>

\* new ChScore(containerSelector) on a container that has a score: line 20
\* calls this.removeScore() before this._stylesheets is set (line 23), and
\* Object.values(undefined) in _removeStylesheets throws
ConstructOnScore ==
  \E i \in ScoreIds, c \in Containers :
    /\ scoreData[i].state = "unborn"
    /\ \A j \in 1..(i - 1) : scoreData[j].state # "unborn"
    /\ doc[c].score # Null
    /\ scoreData' = [scoreData EXCEPT ![i].container = c, ![i].state = "threw"]
    /\ midiLog' = [midiLog EXCEPT !.threw = TRUE]
    /\ pc' = "threw"
    /\ UNCHANGED <<doc, loopVars, inputData, currentOptions>>

\* load(): this._scoreData is set (line 195) and the score is drawn
LoadScore ==
  \E i \in ScoreIds :
    /\ scoreData[i].state \in {"ready", "loaded"}
    /\ scoreData' = [scoreData EXCEPT ![i].state = "loaded", ![i].hasScoreData = TRUE]
    /\ doc' = [doc EXCEPT ![scoreData[i].container].innerHTML = i]
    /\ pc' = "ready"
    /\ UNCHANGED <<loopVars, inputData, midiLog, currentOptions>>

\* removeScore() (lines 308-318)
RemoveScore ==
  \E i \in ScoreIds :
    /\ scoreData[i].state \in {"ready", "loaded"}
    /\ doc' = [doc EXCEPT ![scoreData[i].container] = EmptyContainer]
    /\ scoreData' = [scoreData EXCEPT
                       ![i].state = "removed",
                       ![i].ownChScores =
                          FilteredChScores(ChScoresOf(scoreData, loopVars, i), scoreData,
                                           scoreData[i].container)]
    /\ pc' = "ready"
    /\ UNCHANGED <<loopVars, inputData, midiLog, currentOptions>>

NextRegistry == Construct \/ ConstructOnScore \/ LoadScore \/ RemoveScore

SpecRegistry == InitRegistry /\ [][NextRegistry]_vars

------------------------------------------------------------------------------
(* Classification claims.  A step of _loadMidi that classifies appends to  *)
(* midiLog.classified; the sequence it classifies is the one in scoreData  *)
(* before the step.                                                        *)

DistinctStartTimes ==
  Cardinality({ scoreData.midiNoteSequence.notes[i].startTime :
                  i \in DOMAIN scoreData.midiNoteSequence.notes })

ClassifyingStep == Len(midiLog'.classified) = Len(midiLog.classified) + 1

LastClassified == midiLog.classified[Len(midiLog.classified)]

(* C4, as stated: a sequence is classified 'complete' when its number of   *)
(* distinct start times is the number of audible expanded chord positions, *)
(* 'minimal' when it is the number of audible chord positions, and as a    *)
(* mismatch for every other number.                                        *)
C4_ClassifiedByCount ==
  [][ ClassifyingStep =>
        /\ DistinctStartTimes = Len(scoreData.audibleExpandedChordPositions)
             => LastClassified' = "complete" /\ scoreData'.midiType = "complete"
        /\ DistinctStartTimes = Len(scoreData.audibleChordPositions)
             => LastClassified' = "minimal" /\ scoreData'.midiType = "minimal"
        /\ ( /\ DistinctStartTimes # Len(scoreData.audibleExpandedChordPositions)
             /\ DistinctStartTimes # Len(scoreData.audibleChordPositions) )
             => /\ LastClassified' = "mismatch"
                /\ scoreData'.midiType = scoreData.midiType
                /\ pc' # "loaded" ]_vars

(* C4, amended: 'complete' when the number of distinct start times is the  *)
(* number of audible expanded chord positions; 'minimal' when it is not    *)
(* that number but is the number of audible chord positions; a mismatch    *)
(* for every other number.                                                 *)
C4_ClassifiedCompleteFirst ==
  [][ ClassifyingStep =>
        /\ DistinctStartTimes = Len(scoreData.audibleExpandedChordPositions)
             => LastClassified' = "complete" /\ scoreData'.midiType = "complete"
        /\ ( /\ DistinctStartTimes # Len(scoreData.audibleExpandedChordPositions)
             /\ DistinctStartTimes = Len(scoreData.audibleChordPositions) )
             => LastClassified' = "minimal" /\ scoreData'.midiType = "minimal"
        /\ ( /\ DistinctStartTimes # Len(scoreData.audibleExpandedChordPositions)
             /\ DistinctStartTimes # Len(scoreData.audibleChordPositions) )
             => /\ LastClassified' = "mismatch"
                /\ scoreData'.midiType = scoreData.midiType
                /\ pc' # "loaded" ]_vars

\* a written-order sequence with every note twice, for a score of two verses,
\* classified 'minimal'
C4_Witness ==
  /\ pc = "loaded"
  /\ inputData.midi.kind = "doubled"
  /\ midiLog.classified = <<"minimal">>
  /\ scoreData.midiType = "minimal"
  /\ Len(scoreData.audibleChordPositions) >= 2
  /\ Len(scoreData.audibleExpandedChordPositions) = 2 * Len(scoreData.audibleChordPositions)

(* C5, as stated: when a sequence given to load() fits neither count, the  *)
(* fallback is taken (the sequence is dropped with a warning and one from  *)
(* the engine is used) and _loadMidi does not throw.                       *)
C5_FallbackNeverThrows ==
  Includes(midiLog.console, "warn") => pc # "threw"

(* C6: _loadMidi returns or throws; it regenerates at most once and        *)
(* classifies at most twice; after a mismatch of a sequence given to       *)
(* load() there is exactly one regeneration and one more classification;   *)
(* after a mismatch of the engine's sequence nothing is aligned: no chord  *)
(* position or expanded chord position has a time, no MIDI note has a      *)
(* score note, and there are no metronome beats.                           *)
C6_Returned == pc \in {"loaded", "aborted", "threw"}

C6_RegeneratesOnce ==
  /\ midiLog.regenerated <= 1
  /\ Len(midiLog.classified) <= 2
  /\ (Includes(midiLog.console, "warn") /\ C6_Returned)
       => /\ midiLog.regenerated = 1
          /\ Len(midiLog.classified) = 2
          /\ midiLog.classified[1] = "mismatch"
  /\ pc = "aborted"
       => /\ LastClassified = "mismatch"
          /\ midiLog.console[Len(midiLog.console)] = "error"
          /\ scoreData.metronomeBeats = <<>>
          /\ \A i \in DOMAIN scoreData.chordPositions :
                /\ scoreData.chordPositions[i].midiStartTime = Null
                /\ scoreData.chordPositions[i].midiDuration = Null
                /\ scoreData.chordPositions[i].midiNotesByPitch = <<>>
          /\ \A e \in DOMAIN scoreData.expandedChordPositions :
                /\ scoreData.expandedChordPositions[e].midiStartTime = Null
                /\ scoreData.expandedChordPositions[e].midiNotes = <<>>
          /\ \A k \in DOMAIN scoreData.midiNoteSequence.notes :
                "meiNotes" \notin DOMAIN scoreData.midiNoteSequence.notes[k]

C6_TerminatesRegeneratingOnce ==
  /\ []C6_RegeneratesOnce
  /\ (pc = "loadMidi") ~> C6_Returned

\* a sequence given to load() that did not fit, and an engine whose sequence
\* did not fit either
C6_Witness ==
  /\ pc = "aborted"
  /\ midiLog.console = <<"warn", "error">>
  /\ midiLog.regenerated = 1
  /\ midiLog.classified = <<"mismatch", "mismatch">>

(***************************************************************************)
(* Fermata claims.  The times of an alignment are compared with those the  *)
(* same call gives for the same score and sequence without the fermata.    *)
(***************************************************************************)
\* _loadMidi aligns a score with one fermata of factor 2 on a chord
\* position that has a duration
AlignsWithFermata ==
  /\ pc = "loadMidi"
  /\ pc' = "loaded"
  /\ Len(scoreData.fermatas) = 1
  /\ scoreData.fermatas[1].durationFactor = 2

WithoutFermata == AlignMidi([scoreData EXCEPT !.fermatas = <<>>], Classify(scoreData)).sd

\* the tempo at p is more than 70% of the tempo at the position before it
TempoNotDropped(cps, p) ==
  p = 0 \/ Num(cps[p + 1].midiQpm) * 10 > Num(cps[p].midiQpm) * 7

\* the occurrences of chord position p before expanded chord position e
OccurrencesBefore(expanded, p, e) ==
  Cardinality({ k \in 1..(e - 1) : expanded[k].chordPosition = p })

DoubledAt(new, ref, p) ==
  Num(new.chordPositions[p + 1].midiDuration) = 2 * Num(ref.chordPositions[p + 1].midiDuration)

ShiftedOnce(new, ref, p) ==
  \A e \in DOMAIN new.expandedChordPositions :
     OccurrencesBefore(new.expandedChordPositions, p, e) > 0 =>
        new.expandedChordPositions[e].midiStartTime
          = ref.expandedChordPositions[e].midiStartTime
              + Num(ref.chordPositions[p + 1].midiDuration)

ShiftedByOccurrences(new, ref, p) ==
  \A e \in DOMAIN new.expandedChordPositions :
     new.expandedChordPositions[e].midiStartTime
       = ref.expandedChordPositions[e].midiStartTime
           + OccurrencesBefore(new.expandedChordPositions, p, e)
               * Num(ref.chordPositions[p + 1].midiDuration)

(* C7, as stated: for a fermata of factor 2 on a chord position p whose    *)
(* tempo has not dropped by 30% or more against the position before it,    *)
(* the alignment doubles the duration of p, and every expanded chord       *)
(* position after an occurrence of p starts later by exactly the added     *)
(* duration than without the fermata.                                      *)
C7_DoubledAndShiftedOnce ==
  [][ AlignsWithFermata =>
        \A ref \in {WithoutFermata} :
          TempoNotDropped(ref.chordPositions, scoreData.fermatas[1].chordPosition) =>
            /\ DoubledAt(scoreData', ref, scoreData.fermatas[1].chordPosition)
            /\ ShiftedOnce(scoreData', ref, scoreData.fermatas[1].chordPosition) ]_vars

(* C7, amended: under the same condition the alignment doubles the         *)
(* duration of p, and every expanded chord position starts later than      *)
(* without the fermata by the added duration times the number of           *)
(* occurrences of p before it.                                             *)
C7_DoubledAndShiftedPerOccurrence ==
  [][ AlignsWithFermata =>
        \A ref \in {WithoutFermata} :
          TempoNotDropped(ref.chordPositions, scoreData.fermatas[1].chordPosition) =>
            /\ DoubledAt(scoreData', ref, scoreData.fermatas[1].chordPosition)
            /\ ShiftedByOccurrences(scoreData', ref, scoreData.fermatas[1].chordPosition) ]_vars

\* a score of two verses with a fermata of factor 2 on a chord position
\* that lasts, played twice before the last expanded chord position
C7_Witness ==
  /\ pc = "loaded"
  /\ Len(scoreData.fermatas) = 1
  /\ scoreData.fermatas[1].durationFactor = 2
  /\ Num(scoreData.chordPositions[scoreData.fermatas[1].chordPosition + 1].midiDuration) > 0
  /\ TempoNotDropped(scoreData.chordPositions, scoreData.fermatas[1].chordPosition)
  /\ OccurrencesBefore(scoreData.expandedChordPositions,
                       scoreData.fermatas[1].chordPosition,
                       Len(scoreData.expandedChordPositions)) = 2

(***************************************************************************)
(* Metronome claims, for scores in 6/8 played at 120 quarter notes per     *)
(* minute.  Durations are in ticks of an eighth note: a beat of 1.5        *)
(* quarter notes is 3 ticks.                                               *)
(***************************************************************************)
LoadedIn68At120 ==
  /\ pc = "loaded"
  /\ \A m \in DOMAIN scoreData.measures : scoreData.measures[m].timeSignature = <<6, 8>>
  /\ \A i \in DOMAIN scoreData.chordPositions : scoreData.chordPositions[i].midiQpm = 120

BeatAt(k) == scoreData.metronomeBeats[k]

\* the expanded chord position a beat lies in
BeatPosition(k) ==
  scoreData.expandedChordPositions[
    binaryFind(scoreData.expandedChordPositions, BeatAt(k).startQ,
               0, Len(scoreData.expandedChordPositions) - 1, -1) + 1]

MeasureOfPosition(info) ==
  scoreData.measures[scoreData.chordPositions[info.chordPosition + 1].measureId]

AllBeatsAt80 == \A k \in DOMAIN scoreData.metronomeBeats : BeatAt(k).midiBpm = 80

\* an expanded chord position of a pickup measure lies between the beats
PickupBetween(k) ==
  \E e \in DOMAIN scoreData.expandedChordPositions :
     /\ MeasureOfPosition(scoreData.expandedChordPositions[e]).measureType = "partial-pickup"
     /\ BeatAt(k).startQ < scoreData.expandedChordPositions[e].endQ
     /\ scoreData.expandedChordPositions[e].startQ < BeatAt(k + 1).startQ

\* the beat falls on the first chord position of a full measure
StartsFullMeasure(k) ==
  /\ BeatAt(k).startQ = BeatPosition(k).startQ
  /\ scoreData.chordPositions[BeatPosition(k).chordPosition + 1].isDownbeat
  /\ MeasureOfPosition(BeatPosition(k)).measureType = "full"

ExpandedAt(e) == scoreData.expandedChordPositions[e]

\* e is the last expanded chord position of a section with pauseAfter
EndsPausedSection(e) ==
  /\ \A k \in (e + 1)..Len(scoreData.expandedChordPositions) :
        ExpandedAt(k).sectionId # ExpandedAt(e).sectionId
  /\ \E si \in DOMAIN scoreData.sections :
        /\ scoreData.sections[si].sectionId = ExpandedAt(e).sectionId
        /\ scoreData.sections[si].pauseAfter

(* C21: the expansion clock is a running sum: the first expanded chord     *)
(* position starts at 0; each one ends at its start plus the duration of   *)
(* its chord position, plus a quarter of a second exactly when it is the   *)
(* last expanded chord position of a section with pauseAfter; each one     *)
(* starts where the one before it ends; and totalTime is the end of the    *)
(* last one.                                                               *)
C21_ClockIsRunningSum ==
  (pc = "loaded" /\ scoreData.expandedChordPositions # <<>>) =>
     /\ ExpandedAt(1).midiStartTime = 0
     /\ \A e \in DOMAIN scoreData.expandedChordPositions :
           /\ ExpandedAt(e).midiEndTime =
                 ExpandedAt(e).midiStartTime
                   + Num(scoreData.chordPositions[ExpandedAt(e).chordPosition + 1].midiDuration)
                   + (IF EndsPausedSection(e) THEN 250 ELSE 0)
           /\ e > 1 => ExpandedAt(e).midiStartTime = ExpandedAt(e - 1).midiEndTime
     /\ scoreData.midiNoteSequence.totalTime
          = ExpandedAt(Len(scoreData.expandedChordPositions)).midiEndTime

\* two verses with a pause after the first: the last expanded chord
\* position of the first verse lasts a quarter of a second longer
C21_Witness ==
  /\ pc = "loaded"
  /\ Len(scoreData.sections) = 2
  /\ \E e \in 1..(Len(scoreData.expandedChordPositions) - 1) :
        /\ EndsPausedSection(e)
        /\ Num(scoreData.chordPositions[ExpandedAt(e).chordPosition + 1].midiDuration) > 0
        /\ ExpandedAt(e + 1).midiStartTime
             = ExpandedAt(e).midiStartTime
                 + scoreData.chordPositions[ExpandedAt(e).chordPosition + 1].midiDuration + 250

------------------------------------------------------------------------------
(* Parts template claims, on the parts _normalizeParts has produced        *)

PartIds == [i \in DOMAIN scoreData.parts |-> scoreData.parts[i].partId]

\* the part has one reference, from chord position 0, on the one staff
OnStaffFromStart(partId, staffNumber, isMelody) ==
  /\ PartIndex(scoreData.parts, partId) # 0
  /\ scoreData.parts[PartIndex(scoreData.parts, partId)].chordPositionRefs
       = << [chordPosition |-> 0, isMelody |-> isMelody, staffNumbers |-> <<staffNumber>>] >>

MelodyPartIds ==
  { scoreData.parts[i].partId : i \in { j \in DOMAIN scoreData.parts :
       \E k \in DOMAIN scoreData.parts[j].chordPositionRefs :
          scoreData.parts[j].chordPositionRefs[k].isMelody } }

PartsDone == pc \in {"partsReady", "partsNormalized", "threw"}

C9_SatbParts ==
  /\ PartIds = <<"soprano", "alto", "tenor", "bass">>
  /\ OnStaffFromStart("soprano", 1, TRUE)
  /\ OnStaffFromStart("alto", 1, FALSE)
  /\ OnStaffFromStart("tenor", 2, FALSE)
  /\ OnStaffFromStart("bass", 2, FALSE)
  /\ pc # "threw"

(* C9, as stated: the template "SATB" gives exactly four parts, soprano    *)
(* and alto on staff 1, tenor and bass on staff 2, soprano alone flagged   *)
(* melody, from chord position 0.                                          *)
C9_SatbFourParts ==
  (PartsDone /\ inputData.partsTemplate = <<"S","A","T","B">>) => C9_SatbParts

(* C9, amended: the same, for a score whose staves are 1 and 2.            *)
C9_SatbFourPartsOnTwoStaves ==
  ( /\ PartsDone
    /\ inputData.partsTemplate = <<"S","A","T","B">>
    /\ inputData.staffNumbers = <<1, 2>> ) => C9_SatbParts

C9_Witness ==
  /\ pc = "partsReady"
  /\ inputData.partsTemplate = <<"S","A","T","B">>
  /\ inputData.staffNumbers = <<1, 2>>
  /\ Len(scoreData.parts) = 4

C10_TenorBassParts ==
  /\ SubSeq(PartIds, 1, Min(4, Len(PartIds))) = <<"tenor-1", "tenor-2", "bass-1", "bass-2">>
  /\ OnStaffFromStart("tenor-1", 1, FALSE)
  /\ OnStaffFromStart("tenor-2", 1, TRUE)
  /\ OnStaffFromStart("bass-1", 2, FALSE)
  /\ OnStaffFromStart("bass-2", 2, FALSE)
  /\ MelodyPartIds = {"tenor-2"}
  /\ pc # "threw"

(* C10, as stated: the template "TT+BB#T2" gives first and second tenor on *)
(* staff 1 and first and second bass on staff 2, numbered in order of      *)
(* appearance, the second tenor alone flagged melody.                      *)
C10_SplitParts ==
  (PartsDone /\ inputData.partsTemplate = <<"T","T","+","B","B","#","T","2">>)
    => C10_TenorBassParts

(* C10, amended: the same, for a score that has a staff 2.                 *)
C10_SplitPartsWithSecondStaff ==
  ( /\ PartsDone
    /\ inputData.partsTemplate = <<"T","T","+","B","B","#","T","2">>
    /\ Includes(inputData.staffNumbers, 2) ) => C10_TenorBassParts

C10_Witness ==
  /\ pc = "partsReady"
  /\ inputData.partsTemplate = <<"T","T","+","B","B","#","T","2">>
  /\ inputData.staffNumbers = <<1, 2, 3>>
  /\ Len(scoreData.parts) = 5

(* C11, as stated: for a template with a character that is not a part     *)
(* character, _normalizeParts does not throw and the parts are the default *)
(* ones: melody on staff 1 and accompaniment on every staff.               *)
C11_MalformedTemplateGivesDefault ==
  (PartsDone /\ Includes(inputData.partsTemplate, "X"))
    => /\ pc # "threw"
       /\ scoreData.parts = DefaultParts(inputData.staffNumbers)


------------------------------------------------------------------------------
(* Lyrics claims *)

\* the letters of a text: normalized, without the spaces between words
Letters(text) == SelectSeq(normalize(text), LAMBDA c : c # " ")

\* the lyric syllables of the expanded chord positions of a section, in
\* index order, concatenated
RECURSIVE SectionSyllablesFrom(_, _)
SectionSyllablesFrom(sectionId, e) ==
  IF e > Len(scoreData.expandedChordPositions) THEN <<>>
  ELSE (IF /\ scoreData.expandedChordPositions[e].sectionId = sectionId
           /\ scoreData.expandedChordPositions[e].lyricSyllables # <<>>
        THEN scoreData.expandedChordPositions[e].lyricSyllables[1]
        ELSE <<>>) \o SectionSyllablesFrom(sectionId, e + 1)

FromLyrics(section) == section.type \in {"verse", "chorus"}

(* C12, as stated: once the score is expanded, the lyric syllables of the  *)
(* expanded chord positions of every section made from the lyrics given to *)
(* load(), concatenated in index order, are the text of the section's      *)
(* stanza, punctuation, case and white space aside.                        *)
C12_LyricsRoundTrip ==
  pc = "lyricsExpanded" =>
    \A si \in DOMAIN scoreData.sections :
      FromLyrics(scoreData.sections[si]) =>
        Letters(SectionSyllablesFrom(scoreData.sections[si].sectionId, 1))
          = Letters(scoreData.sections[si].annotatedLyrics)


------------------------------------------------------------------------------
(* Options claims *)

(* C13, as stated: whatever calls of setOptions were made on a loaded      *)
(* score, the saved document is the one _updateMei makes of the complete   *)
(* document with the options as they are now, when it makes one.           *)
C13_HistoryIndependent ==
  (pc = "loaded" /\ ~updateMei(scoreData, currentOptions).threw)
    => scoreData.meiString = updateMei(scoreData, currentOptions).meiString


------------------------------------------------------------------------------
(* Loading claims *)

IndexingStarted == pc \in {"parseAndAnnotateMei", "loaded"}

C14_AfterAllFetches ==
  /\ IndexingStarted => AllFulfilled(loopVars)
  /\ SomeRejected(loopVars) => ~IndexingStarted

(* C14: the promises settle in any order; _parseAndAnnotateMei is called   *)
(* only when the dependencies and every fetch are fulfilled; a rejected    *)
(* promise stays rejected, so that indexing never starts after a failure,  *)
(* and load() waiting on a rejected promise rejects.                       *)
C14_IndexingAfterFetches ==
  /\ []C14_AfterAllFetches
  /\ [][\A p \in Promises : loopVars[p] = "rejected" => loopVars'[p] = "rejected"]_vars
  /\ (pc = "await" /\ SomeRejected(loopVars)) ~> (pc = "rejected")
  /\ [](pc = "rejected" => [](pc = "rejected"))

\* indexing has started after three fetches
C14_Witness ==
  /\ pc = "parseAndAnnotateMei"
  /\ \A p \in {"score", "midi", "lyrics"} : Fetches(inputData, p)

(***************************************************************************)
(* Piano introduction claims.                                              *)
(***************************************************************************)
\* a 'start' bracket followed, later in the document, by an 'end' bracket
HasBracketPair(elements) ==
  \E i, j \in 1..Len(elements) :
    i < j /\ elements[i] = "start" /\ elements[j] = "end"

\* C15: whenever the document given to _extractPianoIntroduction holds no
\* intro bracket pair, or already holds an introduction section, the call
\* returns and the document is unmodified: no element added, removed or
\* changed.
C15_ReturnedUnmodified ==
  (pc \in {"extracted", "threw"}
     /\ (inputData.intro \/ ~HasBracketPair(inputData.elements)))
    => (pc = "extracted" /\ doc = inputData)

(***************************************************************************)
(* Alignment claims.                                                       *)
(***************************************************************************)
\* C16: the alignment loop of _loadMidi never throws: a note with no
\* same-pitch MIDI event, or whose tie names no note or an unindexed note,
\* is skipped, and every expanded chord position is still given its times.
C16_UnmatchedNoteSkipped ==
  /\ pc # "threw"
  /\ pc = "done" =>
       \A e \in DOMAIN scoreData.expandedChordPositions :
          /\ scoreData.expandedChordPositions[e].midiStartTime # Null
          /\ scoreData.expandedChordPositions[e].midiEndTime # Null

\* the part of the claim about notes without a same-pitch MIDI event alone
C16_NoSamePitchSkipped ==
  (pc \in {"align", "done"} /\ midiLog.console # <<>>) =>
     \A k \in DOMAIN midiLog.console :
        \A e \in DOMAIN scoreData.expandedChordPositions :
           \A m \in DOMAIN scoreData.expandedChordPositions[e].midiNotes :
              scoreData.expandedChordPositions[e].midiNotes[m].meiNotes[1]
                # midiLog.console[k]

(***************************************************************************)
(* Section claims.                                                         *)
(***************************************************************************)
Normalized == pc \in {"expandLyrics", "lyricsExpanded"}

\* a section as it was given, but for its annotated lyrics
SameSection(section, given) ==
  [section EXCEPT !.annotatedLyrics = <<>>] = [given EXCEPT !.annotatedLyrics = <<>>]

C18_NoReferenceAfterRemove ==
  \A i \in ScoreIds :
    scoreData[i].state = "removed" =>
      /\ \A c \in Containers : doc[c].score # i /\ doc[c].innerHTML # i
      /\ \A k \in DOMAIN loopVars : loopVars[k] # i
      /\ ~scoreData[i].hasScoreData

\* the part of the claim that is about the container alone
C18_ContainerEmptied ==
  \A i \in ScoreIds :
    scoreData[i].state = "removed" =>
      \A c \in Containers : doc[c].score # i /\ doc[c].innerHTML # i

(***************************************************************************)
(* Empty measure claims.                                                   *)
(***************************************************************************)
\* the measures whose measure-start entry has no onsets
EmptyMeasures(d) ==
  { d.timemap[i].measureOn : i \in { k \in DOMAIN d.timemap :
                                       d.timemap[k].measureOn # Null /\ d.timemap[k].on = <<>> } }

\* C19: with an empty measure at any place of the score, first, middle or
\* last, the indexing loop completes, the empty measure has its place in
\* the measure sequence (its startQ is set) and its firstChordPosition
\* stays unset.
C19_EmptyMeasureIndexed ==
  (pc \in {"indexed", "threw"} /\ EmptyMeasures(doc) # {}) =>
     /\ pc = "indexed"
     /\ \A m \in EmptyMeasures(doc) :
           /\ scoreData.measures[m].startQ # Null
           /\ scoreData.measures[m].firstChordPosition = Null

\* the same for a score whose only empty measure is the last one
C19_LastEmptyMeasureIndexed ==
  (pc \in {"indexed", "threw"}
     /\ EmptyMeasures(doc) = {Len(doc.measures)}
     /\ Len(doc.measures) > 1
     /\ doc.timemap[Len(doc.timemap) - 1].measureOn = Len(doc.measures)) =>
     /\ pc = "indexed"
     /\ scoreData.measures[Len(doc.measures)].startQ # Null
     /\ scoreData.measures[Len(doc.measures)].firstChordPosition = Null

(***************************************************************************)
(* Bucketing claims.                                                       *)
(***************************************************************************)
\* _loadMidi has bucketed a sequence classified as 'minimal', and no
\* fermata changes the times afterwards
BucketedMinimal ==
  /\ pc \in {"loaded", "threw"}
  /\ midiLog.classified # <<>>
  /\ midiLog.classified[Len(midiLog.classified)] = "minimal"
  /\ scoreData.fermatas = <<>>

\* C20: after bucketing a 'minimal' MIDI input every chord position, also
\* one without MIDI events of its own, has a real start and end time, and
\* each chord position ends where the next one starts.
C20_EveryPositionTimed ==
  BucketedMinimal =>
    \A i \in DOMAIN scoreData.chordPositions :
       /\ scoreData.chordPositions[i].midiStartTime # Null
       /\ scoreData.chordPositions[i].midiEndTime # Null
       /\ i < Len(scoreData.chordPositions) =>
            scoreData.chordPositions[i].midiEndTime
              = scoreData.chordPositions[i + 1].midiStartTime

\* the same when every chord position without MIDI events stands alone
\* between two audible chord positions
C20_LoneRestsTimed ==
  (BucketedMinimal
     /\ scoreData.chordPositions[1].isAudible
     /\ scoreData.chordPositions[Len(scoreData.chordPositions)].isAudible
     /\ \A i \in 1..(Len(scoreData.chordPositions) - 1) :
           scoreData.chordPositions[i].isAudible \/ scoreData.chordPositions[i + 1].isAudible) =>
    \A i \in DOMAIN scoreData.chordPositions :
       /\ scoreData.chordPositions[i].midiStartTime # Null
       /\ scoreData.chordPositions[i].midiEndTime # Null
       /\ i < Len(scoreData.chordPositions) =>
            scoreData.chordPositions[i].midiEndTime
              = scoreData.chordPositions[i + 1].midiStartTime


(***************************************************************************)
(* Tie claims, over the alignment loop.                                    *)
(***************************************************************************)
\* the synthesized events stored at expanded chord position e that carry
\* the note id
EventsOf(e, id) ==
  { m \in DOMAIN scoreData.expandedChordPositions[e].midiNotes :
      \E k \in DOMAIN scoreData.expandedChordPositions[e].midiNotes[m].meiNotes :
         scoreData.expandedChordPositions[e].midiNotes[m].meiNotes[k] = id }

\* the note of expanded chord position e is audible, has a same-pitch MIDI
\* event, and is tied to a note whose chord position has no expanded chord
\* position in the section
TiedOutOfSection(e) ==
  LET cpInfo == scoreData.chordPositions[scoreData.expandedChordPositions[e].chordPosition + 1]
      note == scoreData.notesAndRestsById[cpInfo.notesAndRests[1]]
  IN  /\ note.isAudible
      /\ cpInfo.hasMidiNotesOfPitch
      /\ note.tiedNoteId \in DOMAIN scoreData.notesAndRestsById
      /\ scoreData.notesAndRestsById[note.tiedNoteId].chordPosition # Null
      /\ ~scoreData.chordPositions[
            scoreData.notesAndRestsById[note.tiedNoteId].chordPosition + 1].inSection

(* C23: when a note's tie leads to a note whose chord position has no      *)
(* occurrence in the current section, only the tie is dropped: the tying   *)
(* note still has exactly one synthesized event at its own expanded chord  *)
(* position, and no event is created for the tie target.                   *)
C23_TyingNoteKeepsItsEvent ==
  pc = "done" =>
     \A e \in DOMAIN scoreData.expandedChordPositions :
        TiedOutOfSection(e) =>
           LET cpInfo == scoreData.chordPositions[
                           scoreData.expandedChordPositions[e].chordPosition + 1]
               note == scoreData.notesAndRestsById[cpInfo.notesAndRests[1]]
           IN  /\ Cardinality(EventsOf(e, note.elementId)) = 1
               /\ \A f \in DOMAIN scoreData.expandedChordPositions :
                     EventsOf(f, note.tiedNoteId) = {}

\* the part of the claim about the tie target alone
C23_NoEventForTieTarget ==
  pc = "done" =>
     \A e \in DOMAIN scoreData.expandedChordPositions :
        TiedOutOfSection(e) =>
           \A f \in DOMAIN scoreData.expandedChordPositions :
              EventsOf(f, scoreData.notesAndRestsById[
                            scoreData.chordPositions[
                              scoreData.expandedChordPositions[e].chordPosition + 1
                            ].notesAndRests[1]].tiedNoteId) = {}

(* C24: every synthesized MIDI event stored in an expanded chord           *)
(* position's midiNotes starts exactly at that expanded chord position's   *)
(* start time; when a tie is split, the second event starts at the         *)
(* tied-into expanded chord position's start time and the first event ends *)
(* no later than that.                                                     *)
C24_EventsStartAtTheirPosition ==
  pc = "done" =>
     \A e \in DOMAIN scoreData.expandedChordPositions :
        \A m \in DOMAIN scoreData.expandedChordPositions[e].midiNotes :
           /\ scoreData.expandedChordPositions[e].midiNotes[m].startTime
                = scoreData.expandedChordPositions[e].midiStartTime
           /\ \A f \in DOMAIN scoreData.expandedChordPositions :
                \A k \in DOMAIN scoreData.expandedChordPositions[f].midiNotes :
                   ( /\ f < e
                     /\ scoreData.notesAndRestsById[
                           scoreData.expandedChordPositions[f].midiNotes[k].meiNotes[1]
                        ].tiedNoteId
                          = scoreData.expandedChordPositions[e].midiNotes[m].meiNotes[1] )
                   => scoreData.expandedChordPositions[f].midiNotes[k].endTime
                        <= scoreData.expandedChordPositions[e].midiStartTime

\* the events of notes that are not the target of a split tie do start at
\* their expanded chord position
C24_OwnEventsStartAtTheirPosition ==
  pc = "done" =>
     \A e \in DOMAIN scoreData.expandedChordPositions :
        \A m \in DOMAIN scoreData.expandedChordPositions[e].midiNotes :
           scoreData.notesAndRestsById[
              scoreData.expandedChordPositions[e].midiNotes[m].meiNotes[1]].isAudible
           => scoreData.expandedChordPositions[e].midiNotes[m].startTime
                = scoreData.expandedChordPositions[e].midiStartTime


(***************************************************************************)
(* Skip symbol claims.                                                     *)
(***************************************************************************)
(* C22: an expanded chord position whose lyric syllables equal the em dash *)
(* is flagged skip, and no synthesized MIDI event is ever stored on a      *)
(* skip-flagged expanded chord position, from its own notes or from a tie  *)
(* split.                                                                  *)
C22_SkipFlaggedAndSilent ==
  \A e \in DOMAIN scoreData.expandedChordPositions :
     /\ EverySyllableIsSkipSymbol(scoreData.expandedChordPositions[e].lyricSyllables)
          => scoreData.expandedChordPositions[e].lyricIsSkipSymbol
     /\ scoreData.expandedChordPositions[e].lyricIsSkipSymbol
          => scoreData.expandedChordPositions[e].midiNotes = <<>>

\* the claim for expanded chord positions with a single syllable, and the
\* silence of the flagged ones
C22_SingleSkipFlaggedAndSilent ==
  \A e \in DOMAIN scoreData.expandedChordPositions :
     /\ scoreData.expandedChordPositions[e].lyricSyllables = <<SkipSymbol>>
          => scoreData.expandedChordPositions[e].lyricIsSkipSymbol
     /\ scoreData.expandedChordPositions[e].lyricIsSkipSymbol
          => scoreData.expandedChordPositions[e].midiNotes = <<>>


(* C28: constructing a ChScore on a container that already holds a score   *)
(* first removes the previous score and then completes initialization:     *)
(* afterwards the container's score is the new instance and its status is  *)
(* 'ready'.                                                                *)
C28_ConstructReplacesScore ==
  [][ \A i \in ScoreIds, c \in Containers :
        ( /\ scoreData[i].state = "unborn"
          /\ scoreData'[i].state # "unborn"
          /\ scoreData'[i].container = c
          /\ doc[c].score # Null )
        => /\ doc'[c].score = i
           /\ doc'[c].status = "ready"
           /\ scoreData'[i].state = "ready" ]_vars


(***************************************************************************)
(* Chorus range claims.                                                    *)
(***************************************************************************)
\* the runs that become chorus ranges, in order
LongGaps == SelectSeq(loopVars.lyricGaps, LAMBDA g : Len(g) > maxAllowedGap)

(* C25: a detected chorus run is clamped to the score edges: when its      *)
(* first chord position is within maxAllowedGap of 0 the range starts at   *)
(* 0, and when its last chord position is within maxAllowedGap of the      *)
(* final chord position the range ends at numChordPositions.               *)
C25_ChorusClampedToEdges ==
  (pc = "done" /\ HasSecondVerse(doc)) =>
     /\ Len(scoreData.chorusCpRanges) = Len(LongGaps)
     /\ \A k \in DOMAIN LongGaps :
          /\ LongGaps[k][1] - maxAllowedGap <= 0
               => /\ scoreData.chorusCpRanges[k] # <<>>
                  /\ scoreData.chorusCpRanges[k][1] = 0
          /\ LongGaps[k][Len(LongGaps[k])] + maxAllowedGap
                > scoreData.numChordPositions - 1
               => /\ scoreData.chorusCpRanges[k] # <<>>
                  /\ scoreData.chorusCpRanges[k][Len(scoreData.chorusCpRanges[k])]
                       = scoreData.numChordPositions - 1

\* the clamps do take effect when the chord positions with more than one
\* melody lyric line are at least as many as the run is long, less one
C25_ClampedAfterLongVerses ==
  (pc = "done" /\ HasSecondVerse(doc)) =>
     /\ Len(scoreData.chorusCpRanges) = Len(LongGaps)
     /\ \A k \in DOMAIN LongGaps :
          (Len(loopVars.lyricGaps) >= Len(LongGaps[k])) =>
             /\ scoreData.chorusCpRanges[k] # <<>>
             /\ LongGaps[k][1] - maxAllowedGap <= 0
                  => scoreData.chorusCpRanges[k][1] = 0
             /\ LongGaps[k][Len(LongGaps[k])] + maxAllowedGap
                   > scoreData.numChordPositions - 1
                  => scoreData.chorusCpRanges[k][Len(scoreData.chorusCpRanges[k])]
                       = scoreData.numChordPositions - 1


(***************************************************************************)
(* Single-line claims.                                                     *)
(***************************************************************************)
\* the expanded chord positions a..b are a maximal run of chord positions
\* with exactly one lyric line: it begins and ends with one, holds no chord
\* position with several lines, and no chord position with one line lies
\* before a or after b without a chord position with several lines between
IsSingleLineRun(a, b) ==
  /\ a <= b
  /\ LineCount(doc, a) = 1
  /\ LineCount(doc, b) = 1
  /\ \A x \in a..b : LineCount(doc, x) # 2
  /\ \A x \in 0..(a - 1) :
        LineCount(doc, x) = 1 => \E y \in x..a : LineCount(doc, y) = 2
  /\ \A x \in (b + 1)..(NumEcps(doc) - 1) :
        LineCount(doc, x) = 1 => \E y \in b..x : LineCount(doc, y) = 2

LyricCarrying(a, b) == { x \in a..b : LineCount(doc, x) = 1 }

(* C26: isSingleLine is marked on every chord position of every maximal    *)
(* run, wherever it begins, of more than 3 lyric-carrying chord positions  *)
(* with exactly one lyric line, and on no chord position of a run of 3 or  *)
(* fewer.                                                                  *)
C26_SingleLineRunsMarked ==
  pc = "done" =>
     \A a, b \in 0..(NumEcps(doc) - 1) :
        IsSingleLineRun(a, b) =>
           IF Cardinality(LyricCarrying(a, b)) > maxAllowedGap
           THEN \A x \in LyricCarrying(a, b) : scoreData.isSingleLine[EcpToCp(doc, x)]
           ELSE \A x \in LyricCarrying(a, b) : ~scoreData.isSingleLine[EcpToCp(doc, x)]

\* the long runs that begin after the first expanded chord position are
\* marked
C26_LaterRunsMarked ==
  pc = "done" =>
     \A a, b \in 1..(NumEcps(doc) - 1) :
        (IsSingleLineRun(a, b) /\ Cardinality(LyricCarrying(a, b)) > maxAllowedGap)
        => \A x \in LyricCarrying(a, b) : scoreData.isSingleLine[EcpToCp(doc, x)]


(***************************************************************************)
(* Introduction id claims.                                                 *)
(***************************************************************************)
\* every xml:id of the document, the measure's and the introduction's
DocumentIds ==
  scoreData.main \o scoreData.intro.elements
    \o [k \in DOMAIN scoreData.intro.ties |-> scoreData.intro.ties[k].id]

(* C27: after the introduction is extracted the ids are collision-free,    *)
(* every clone, chords and the elements of a measure covered by more than  *)
(* one bracket range included, having a distinct id, and every kept tie    *)
(* references only ids present in the introduction.                        *)
C27_IdsDistinctAndTiesResolve ==
  pc = "extracted" =>
     /\ \A i, j \in DOMAIN DocumentIds : i # j => DocumentIds[i] # DocumentIds[j]
     /\ \A k \in DOMAIN scoreData.intro.ties :
          /\ scoreData.intro.ties[k].startid \in IntroNoteIds(scoreData.intro)
          /\ scoreData.intro.ties[k].endid \in IntroNoteIds(scoreData.intro)

\* the part of the claim about the kept ties alone
C27_KeptTiesResolve ==
  pc = "extracted" =>
     \A k \in DOMAIN scoreData.intro.ties :
        /\ scoreData.intro.ties[k].startid \in IntroNoteIds(scoreData.intro)
        /\ scoreData.intro.ties[k].endid \in IntroNoteIds(scoreData.intro)

\* the ids are distinct when no chord is cloned and one range is extracted
C27_DistinctWithoutChords ==
  (pc = "extracted" /\ Len(doc.ranges) = 1 /\ \A p \in ClonePositions : ~doc.isChord[p]) =>
     \A i, j \in DOMAIN DocumentIds : i # j => DocumentIds[i] # DocumentIds[j]


(***************************************************************************)
(* Combined parts template claims.                                         *)
(***************************************************************************)
UnisonThenSatb ==
  <<"0",":","U","n","i","s","o","n",";"," ","3","9",":","S","A","+","T","B">>

SatbThenSoloTenor == <<"0",":","S","A","T","B",";","2",":","S","+","T","#","T">>

\* the parts that own the staff at the chord position, but for the padding
\* parts
StaffOwners(staffNumber, chordPosition) ==
  { partId \in UNION { Range(getStaffPartIds(staffNumber, chordPosition,
                                             scoreData.parts).partIds[k]) :
                         k \in DOMAIN getStaffPartIds(staffNumber, chordPosition,
                                                      scoreData.parts).partIds } :
      partId \notin {"accompaniment", "instrumental"} }

\* the parts flagged melody on some staff at the chord position
MelodyAt(chordPosition) ==
  UNION { Range(getStaffPartIds(s, chordPosition, scoreData.parts).melodyPartIds) :
            s \in 1..2 }

(* C29: with a combined parts template of several ranges, from each        *)
(* range's start onward the parts that own each staff are exactly those    *)
(* the range names (plus padding) and exactly one part is flagged melody;  *)
(* a part named only in an earlier range owns no staff and is not melody   *)
(* from a later range's start on.                                          *)
C29_RangePartsOwnStaves ==
  (pc = "partsReady" /\ inputData.staffNumbers = <<1, 2>>) =>
     /\ inputData.partsTemplate = UnisonThenSatb =>
          /\ StaffOwners(1, 0) = {"melody"}
          /\ StaffOwners(2, 0) = {}
          /\ MelodyAt(0) = {"melody"}
          /\ StaffOwners(1, 39) = {"soprano", "alto"}
          /\ StaffOwners(2, 39) = {"tenor", "bass"}
          /\ MelodyAt(39) = {"soprano"}
     /\ inputData.partsTemplate = SatbThenSoloTenor =>
          /\ StaffOwners(1, 0) = {"soprano", "alto"}
          /\ StaffOwners(2, 0) = {"tenor", "bass"}
          /\ MelodyAt(0) = {"soprano"}
          /\ StaffOwners(1, 2) = {"soprano"}
          /\ StaffOwners(2, 2) = {"tenor"}
          /\ MelodyAt(2) = {"tenor"}

\* the parts a range names do own their staves from the range's start on,
\* and the first range is as the claim says
C29_NamedPartsOwnStaves ==
  (pc = "partsReady" /\ inputData.staffNumbers = <<1, 2>>) =>
     /\ inputData.partsTemplate = UnisonThenSatb =>
          /\ StaffOwners(1, 0) = {"melody"}
          /\ StaffOwners(2, 0) = {}
          /\ MelodyAt(0) = {"melody"}
          /\ {"soprano", "alto"} \subseteq StaffOwners(1, 39)
          /\ {"tenor", "bass"} \subseteq StaffOwners(2, 39)
          /\ "soprano" \in MelodyAt(39)
     /\ inputData.partsTemplate = SatbThenSoloTenor =>
          /\ StaffOwners(1, 0) = {"soprano", "alto"}
          /\ StaffOwners(2, 0) = {"tenor", "bass"}
          /\ MelodyAt(0) = {"soprano"}
          /\ "soprano" \in StaffOwners(1, 2)
          /\ "tenor" \in StaffOwners(2, 2)
          /\ MelodyAt(2) = {"tenor"}


(***************************************************************************)
(* Melody claims, over the indexing loop.                                  *)
(***************************************************************************)
\* the notes of the chord position that are flagged melody
MelodyNotesOf(cp) ==
  { id \in Range(scoreData.chordPositions[cp].notesAndRests) :
      scoreData.notesAndRestsById[id].isMelody = "true" }

(* C30: at every chord position at most one note is flagged melody, and    *)
(* the chord position's melodyNote is that note; for every parts           *)
(* configuration, a melody part on more than one staff or a staff with     *)
(* more than one odd-numbered layer included.                              *)
C30_OneMelodyNote ==
  \A cp \in DOMAIN scoreData.chordPositions :
     /\ Cardinality(MelodyNotesOf(cp)) <= 1
     /\ MelodyNotesOf(cp) # {}
          => MelodyNotesOf(cp) = {scoreData.chordPositions[cp].melodyNote}
     /\ MelodyNotesOf(cp) = {} => scoreData.chordPositions[cp].melodyNote = Null

\* melodyNote is one of the notes flagged melody, and null when there is
\* none
C30_MelodyNoteIsFlagged ==
  \A cp \in DOMAIN scoreData.chordPositions :
     IF MelodyNotesOf(cp) = {}
     THEN scoreData.chordPositions[cp].melodyNote = Null
     ELSE scoreData.chordPositions[cp].melodyNote \in MelodyNotesOf(cp)

==============================================================================
